---- MODULE Spec2Model ----
(***************************************************************************)
(* Model of the Frigate launcher (frigate_launcher.py): the background     *)
(* workers (QThread subclasses) that run external commands, the launcher   *)
(* handlers that start them and react to their queued signals, and the     *)
(* container engine / file system they act on.                             *)
(*                                                                         *)
(* Threads.  Each worker is a thread whose run() is modelled location by   *)
(* location: one step per external command (with the progress emissions    *)
(* that follow it up to the next command).  Signals emitted by a worker    *)
(* are queued to the UI thread (uiq) and handled there in FIFO order.  The *)
(* UI thread runs one handler at a time; a handler that opens a modal      *)
(* dialog pushes a frame on uistack and the nested event loop keeps        *)
(* dispatching queued events and timers until the user answers.            *)
(***************************************************************************)
EXTENDS Integers, Sequences, FiniteSets, TLC

\* ------------------------------------------------------------------ bounds
\* DockerWorker objects alive at once: started, and their finished signal
\* not yet handled by the launcher.
MaxWorkers == 2
\* A worker thread of the launcher is scheduled while fewer than MaxQueue
\* of its signals (for a status poll: of all signals) wait for the UI thread.
MaxQueue == 1
\* Nested modal dialogs open at once.
MaxStack == 2
\* Docker operations started in one run of the launcher.
MaxOps == 3

VARIABLES
    \* --- container engine and file system
    cExists,          \* a container named frigate exists
    cRunning,         \* ... and is running
    repoExists,       \* <script_dir>/frigate exists
    dockerInstalled,  \* the docker binary can be executed
    venvExists,       \* <script_dir>/.venv and its bin/pip exist
    gitRepo,          \* <script_dir>/frigate/.git exists
    missing,          \* the prerequisites (of Prereqs) that are not installed
    \* --- DockerWorker objects, by slot (a slot is free or holds a worker)
    dw,
    \* --- the install workers, by kind (at most one object of a kind)
    iw,
    \* --- launcher (UI thread)
    uiq,              \* queued DockerWorker signals for the UI thread
    uistack,          \* open modal dialogs (handlers suspended in exec())
    timers,           \* pending QTimer.singleShot callbacks
    docker_worker,    \* self.docker_worker: 0 is None, else an index of dw
    current_docker_action,
    is_initializing,
    button_operation_state,
    btn,              \* enabled state of the operation controls
    first_start_flag, \* .frigate_first_start_shown exists
    closed,           \* closeEvent has run
    ops,              \* DockerWorker objects created so far
    hist,             \* history of the one worker invocation that SpecRun
                      \* observes: its external commands and emissions
    \* --- status polling
    status_worker,    \* self.status_worker: 0 is None, else an index of sw
    sw,               \* StatusCheckWorker objects, by slot
    \* --- external commands on the UI thread
    uicmds,           \* the external commands (with how they ended) that
                      \* the last handler to run any ran on the UI thread
    \* --- config.yaml and the launcher's configuration editor
    config_yaml,      \* frigate/config/config.yaml: exists, content, mtime
    config_preview,   \* the text of the launcher's editor
    config_file_mtime,
    suppress_config_change_popup,
    prompts,          \* open "Configuration File Changed" prompts: the
                      \* suspended calls of check_config_file_changes
    camera_gui,       \* where the camera-only editor is
    shown,            \* history: how often the prompt was shown, by mtime
    loaded,           \* history: the mtime of the file version that the
                      \* launcher's editor last loaded or wrote
    \* --- the YAML document of config.yaml and the two form editors
    document,         \* config.yaml as YAML: exists, and its nodes by
                      \* top-level key (scalars as they are spelt)
    camera_tabs,      \* the camera-only editor: its state and cameras
    form,             \* the advanced editor: its state and fields
    \* --- stream URLs and the sudo credential
    camera,           \* a camera of config.yaml and its tab in the
                      \* camera-only editor, field by field
    wizard,           \* the cameras of the PreConfigured setup and the
                      \* stream URL that generate_frigate_config builds
    sudo,             \* the sudo password: who holds it and where it went
    install_progress, \* the lines of the log of the repository tab
    req               \* what became of the last docker_action call:
                      \* "initializing" (refused during start-up), "rejected"
                      \* (refused by the running-operation guard, a warning
                      \* is appended to the log), "accepted" (past the guard)

envVars == <<cExists, cRunning, repoExists, dockerInstalled, venvExists,
             gitRepo, missing>>
uiVars == <<uistack, timers, docker_worker, current_docker_action,
            is_initializing, button_operation_state, btn, first_start_flag,
            closed, ops, req>>
statusVars == <<status_worker, sw>>
\* The state of the parts of the program that the docker and install
\* handlers neither read nor write.
cfgVars == <<config_yaml, config_preview, config_file_mtime,
             suppress_config_change_popup, prompts, camera_gui, shown,
             loaded>>
docVars == <<document, camera_tabs, form>>
auxVars == <<camera, wizard, sudo, install_progress>>
extVars == <<statusVars, uicmds, cfgVars, docVars, auxVars>>
vars == <<envVars, dw, iw, uiq, uiVars, hist, extVars>>

\* StatusCheckWorker objects alive at once.
MaxStatusWorkers == 2
\* No StatusCheckWorker object in a slot.
NoStatusWorker == [pc |-> "free", emitted |-> 0, deleted |-> FALSE]

\* Writes of config.yaml in one run of the launcher (an mtime is the
\* number of the write that made the version).
MaxWrites == 4
\* "Configuration File Changed" prompts open at once.
MaxPrompts == 2
\* Distinct file contents; DefaultConfig is the template text that
\* load_config_preview shows when there is no file.
MaxContents == 2
Contents == 1..MaxContents
DefaultConfig == 0

\* load_config_preview on a config.yaml of the given state: the editor
\* text and the tracked mtime.
LoadConfigPreview(file) ==
    IF file.exists
    THEN [text |-> file.content, mtime |-> file.mtime]
    ELSE [text |-> DefaultConfig, mtime |-> 0]

\* The configuration editor after construction (create_config_tab calls
\* load_config_preview), no prompt open, the camera-only editor closed.
InitConfigOf(file) ==
    /\ config_yaml = file
    /\ config_preview = LoadConfigPreview(file).text
    /\ config_file_mtime = LoadConfigPreview(file).mtime
    /\ suppress_config_change_popup = FALSE
    /\ prompts = <<>>
    /\ camera_gui = "closed"
    /\ shown = [m \in 1..MaxWrites |-> 0]
    /\ loaded = LoadConfigPreview(file).mtime

\* ------------------------------------------------ the YAML document
\* A Python value that yaml.safe_load yields for a scalar, or that a form
\* editor builds: its type and its spelling.
BoolValue(b) == [type |-> "bool", v |-> IF b THEN "true" ELSE "false"]
IntValue(s) == [type |-> "int", v |-> s]
StrValue(s) == [type |-> "str", v |-> s]

\* Plain scalars that YAML 1.1 resolves to a bool or an int, and the
\* empty string: a str of this spelling is written in quotes.
TrueTexts == {"true", "yes", "on"}
FalseTexts == {"false", "no", "off"}
IntTexts == {"1883", "8883", "320", "640", "416"}
NeedQuotes == TrueTexts \cup FalseTexts \cup IntTexts \cup {""}
Quoted(s) == "'" \o s \o "'"

\* yaml.safe_load of a scalar as it is spelt in the file.
LoadScalar(text) ==
    CASE text \in TrueTexts -> BoolValue(TRUE)
      [] text \in FalseTexts -> BoolValue(FALSE)
      [] text \in IntTexts -> IntValue(text)
      [] \E s \in NeedQuotes : text = Quoted(s) ->
            StrValue(CHOOSE s \in NeedQuotes : text = Quoted(s))
      [] OTHER -> StrValue(text)

\* yaml.dump of a scalar value.
DumpScalar(value) ==
    IF value.type = "str" /\ value.v \in NeedQuotes
    THEN Quoted(value.v)
    ELSE value.v

\* The nesting of mappings under a top-level key: version is a scalar,
\* detectors a mapping of mappings, every other key a mapping of scalars.
LoadNode(key, node) ==
    CASE key = "version" -> LoadScalar(node)
      [] key = "detectors" ->
            [name \in DOMAIN node |->
               [f \in DOMAIN node[name] |-> LoadScalar(node[name][f])]]
      [] OTHER -> [f \in DOMAIN node |-> LoadScalar(node[f])]

DumpNode(key, value) ==
    CASE key = "version" -> DumpScalar(value)
      [] key = "detectors" ->
            [name \in DOMAIN value |->
               [f \in DOMAIN value[name] |-> DumpScalar(value[name][f])]]
      [] OTHER -> [f \in DOMAIN value |-> DumpScalar(value[f])]

\* yaml.safe_load of the file (an empty file gives None, which the
\* editors take as an empty mapping) and yaml.dump to the file.
LoadDocument(nodes) == [k \in DOMAIN nodes |-> LoadNode(k, nodes[k])]
DumpDocument(config) == [k \in DOMAIN config |-> DumpNode(k, config[k])]

\* Accelerator device nodes that the glob of the advanced editor finds.
MaxDetected == 1
\* The upper end of the memryx_devices spin box when none is found.
UndetectedMaximum == 8

\* The camera-only editor and the advanced editor when not open.
NoCameraTabs == [state |-> "closed", cams |-> <<>>, others_wrote |-> FALSE]
NoForm == [state |-> "closed", num_devices |-> 0, mqtt_enabled |-> FALSE,
           mqtt_host |-> "", mqtt_port |-> "1883",
           mqtt_topic |-> "frigate", ffmpeg_group |-> FALSE,
           memryx_devices |-> 1,
           model_type |-> "yolo-generic", model_resolution |-> "320 x 320",
           custom_group |-> FALSE, custom_width |-> "320",
           custom_height |-> "320", custom_path |-> "/config/yolo.zip",
           input_tensor |-> "nchw", input_dtype |-> "float",
           labelmap_path |-> "/labelmap/coco-80.txt",
           tabs |-> <<[camera_name |-> "camera_1",
                       camera_url |-> "rtsp://..."]>>]

\* A config.yaml written by hand: MQTT off, one detector, one camera.
InitialDocument ==
    [exists |-> TRUE,
     nodes |-> ("mqtt" :> ("enabled" :> "false")) @@
               ("detectors" :> ("memx0" :> ("type" :> "memryx" @@
                                            "device" :> "PCIe:0"))) @@
               ("cameras" :> ("cam1" :> "rtsp://a")) @@
               ("version" :> "0.17-0")]

\* No camera of config.yaml looked at, no camera-only tab.
NoCamera == [name |-> "", config |-> <<>>]
NoTab == [state |-> "closed"]
\* No PreConfigured setup made.
NoWizard == [cameras |-> <<>>, rtsp_url |-> <<>>]
\* No restart asked for: the launcher holds no sudo password, nothing
\* went to a command, nothing was appended to the prerequisites log.
NoSudo == [restart_sudo_password |-> "none", timer |-> FALSE,
           argv |-> <<>>, stdin |-> <<>>, prereq_progress |-> <<>>]

\* Nothing done about stream URLs or with sudo.
AuxAtRest ==
    /\ camera = [existing |-> NoCamera, tab |-> NoTab]
    /\ wizard = NoWizard
    /\ sudo = NoSudo
    /\ install_progress = <<>>

\* Both form editors closed, config.yaml as saved before.
EditorsClosed ==
    /\ document = InitialDocument
    /\ camera_tabs = NoCameraTabs
    /\ form = NoForm

\* The parts of the launcher outside the docker and install handlers, at
\* rest: no status poll under way, config.yaml as the editor loaded it.
InitExt ==
    /\ status_worker = 0
    /\ sw = [i \in 1..MaxStatusWorkers |-> NoStatusWorker]
    /\ uicmds = <<>>
    /\ InitConfigOf([exists |-> TRUE, content |-> 1, mtime |-> 1])
    /\ EditorsClosed
    /\ AuxAtRest

Actions == {"start", "stop", "restart", "rebuild", "remove"}

\* ------------------------------------------------- progress message texts
\* A progress text is represented by the set of keywords of
\* on_docker_progress_for_button that its lower-cased text contains.
Keywords == {"building", "build", "starting", "creating",
             "started successfully", "frigate is now running",
             "error", "failed"}

\* on_docker_progress_for_button: the button state a text maps to.
ClassifyProgress(kw) ==
    IF "building" \in kw \/ "build" \in kw THEN "building"
    ELSE IF "starting" \in kw \/ "creating" \in kw THEN "starting"
    ELSE IF "started successfully" \in kw \/ "frigate is now running" \in kw
         THEN "running"
    ELSE IF "error" \in kw \/ "failed" \in kw THEN "error"
    ELSE "none"

\* _run_docker_command's description line for each docker subcommand.
Description(cmd) ==
    CASE cmd = "start"   -> {"starting"}           \* "Starting container:"
      [] cmd = "stop"    -> {}                     \* "Stopping container:"
      [] cmd = "restart" -> {"starting"}           \* "Restarting container:"
      [] cmd = "rm"      -> {}                     \* "Removing container:"
      [] cmd = "build"   -> {"building", "build"}  \* "Building Docker image:"
      [] cmd = "run"     -> {"creating"}           \* "Creating container:"

\* "Command failed: <cmd line>" of _run_docker_command.
CommandFailedText(cmd) ==
    IF cmd = "build" THEN {"failed", "build"} ELSE {"failed"}

\* "Error: <str(e)>" of DockerWorker.run for a propagated exception; the
\* text of a CalledProcessError quotes the command line.
RunErrorText(cmd) ==
    IF cmd = "build" THEN {"error", "build"} ELSE {"error"}

\* ------------------------------------------------------- container engine
\* Outcomes of `docker <cmd> ...' in the current environment: res is "ok"
\* (exit status 0), "nonzero" (CalledProcessError under check=True) or
\* "oserror" (the binary cannot be executed: FileNotFoundError); e, r are
\* the container's existence and running state afterwards.
DockerOutcomes(cmd) ==
    LET same(res) == [res |-> res, e |-> cExists, r |-> cRunning]
        to(res, e, r) == [res |-> res, e |-> e, r |-> r]
    IN  IF ~dockerInstalled THEN {same("oserror")}
        ELSE CASE cmd = "start" ->
                    IF cExists THEN {to("ok", TRUE, TRUE), same("nonzero")}
                    ELSE {same("nonzero")}
               [] cmd = "stop" ->
                    IF cExists THEN {to("ok", TRUE, FALSE), same("nonzero")}
                    ELSE {same("nonzero")}
               [] cmd = "restart" ->
                    IF cExists
                    THEN {to("ok", TRUE, TRUE), same("nonzero"),
                          to("nonzero", TRUE, FALSE)}
                    ELSE {same("nonzero")}
               [] cmd = "rm" ->
                    IF cExists /\ ~cRunning
                    THEN {to("ok", FALSE, FALSE), same("nonzero")}
                    ELSE {same("nonzero")}
               [] cmd = "build" -> {same("ok"), same("nonzero")}
               [] cmd = "run" ->
                    IF ~cExists
                    THEN {to("ok", TRUE, TRUE), same("nonzero"),
                          to("nonzero", TRUE, FALSE)}
                    ELSE {same("nonzero")}

\* `docker ps -a --filter name=frigate': 'frigate' in result.stdout, and
\* False when the command cannot be run (the bare except).
CheckContainerExists == dockerInstalled /\ cExists
\* `docker ps --filter name=frigate'.
CheckContainerRunning == dockerInstalled /\ cExists /\ cRunning

\* ------------------------------------------------------------ DockerWorker
\* DockerWorker.__init__, then QThread.start(): the thread is at the entry
\* of run().
NewDockerWorker(action) ==
    [action |-> action, pc |-> "run", terminated |-> FALSE]

\* A slot without a worker object.
NoWorker == [NewDockerWorker("none") EXCEPT !.pc = "free"]

\* QThread.isRunning()
IsRunning(w) == w.pc \notin {"ended", "free"}

\* The lines an external command prints, as keyword sets: `docker build'
\* streams its build log, of which a line may hold a keyword; the other
\* commands print a container id or name.
OutputChoice(cmd) == IF cmd = "build" THEN {<<>>, <<{"error"}>>} ELSE {<<>>}

\* "Error: <line>" for a line of a failed command's stderr.
AsErrorLine(l) == l \cup {"error"}

\* The stderr lines of a failed command, each emitted as an error line.
ErrorLines(out) == [k \in 1..Len(out) |-> AsErrorLine(out[k])]

\* DockerWorker._run_docker_command: the progress texts it emits for a
\* command that ended with res and printed out.
RunDockerCommandTexts(cmd, res, out, capture_output) ==
    <<Description(cmd)>> \o
    (IF res = "oserror" THEN <<>>
     ELSE IF capture_output
          THEN out \o (IF res = "nonzero" THEN <<CommandFailedText(cmd)>>
                       ELSE <<>>)
          ELSE IF res = "ok" THEN out
               ELSE <<CommandFailedText(cmd)>> \o ErrorLines(out))

\* One step of a worker thread: the record w2 it moves to, the external
\* commands it ran with their results (cmds), the progress texts it emits,
\* the finished(bool) emission after them ("none", "true", "false") and the
\* state of the container afterwards.
StepResult(w2, cmds, texts, fin, e, r) ==
    [w |-> w2, cmds |-> cmds, texts |-> texts, fin |-> fin, e |-> e, r |-> r]

\* An external command and how it ended.
Cmd(c, res) == <<[c |-> c, res |-> res]>>

\* (variant) the operation function does not return where it should but
\* goes on to docker start.
ReturnToRunContinues(w, cmds, texts, e, r) ==
    [w |-> [w EXCEPT !.pc = "st_start"], cmds |-> cmds, texts |-> texts,
     fin |-> "none", e |-> e, r |-> r]

\* (variant) run() returns without emitting finished.
ReturnToRunSilently(w, cmds, texts, e, r) ==
    [w |-> [w EXCEPT !.pc = "ended"], cmds |-> cmds, texts |-> texts,
     fin |-> "none", e |-> e, r |-> r]

\* The operation function returned normally to run():
\*     if not self._terminated: self.finished.emit(True)
\* after which run() returns and the thread ends.
ReturnToRun(w, cmds, texts, e, r) ==
    StepResult([w EXCEPT !.pc = "ended"], cmds, texts,
               IF w.terminated THEN "none" ELSE "true", e, r)

\* (variant) the exception is swallowed and run() reports success.
RaiseToRunAsSuccess(w, cmds, texts, errtext, e, r) ==
    ReturnToRun(w, cmds, texts, e, r)

\* An exception reached run()'s except clause:
\*     if not self._terminated: progress.emit("Error: ..."); finished.emit(False)
RaiseToRun(w, cmds, texts, errtext, e, r) ==
    StepResult([w EXCEPT !.pc = "ended"], cmds,
               IF w.terminated THEN texts ELSE texts \o <<errtext>>,
               IF w.terminated THEN "none" ELSE "false", e, r)

Goto(w, pc, cmds, texts, e, r) ==
    StepResult([w EXCEPT !.pc = pc], cmds, texts, "none", e, r)

\* (variant) the failure of the command is passed over and the worker
\* goes on as after a success.
FailFastCommandGoesOn(w, cmd, capture_output, after, next) ==
    { LET c == Cmd(cmd, o.res)
          t == RunDockerCommandTexts(cmd, o.res, out, capture_output)
      IN  IF next = "" THEN ReturnToRun(w, c, t \o after, o.e, o.r)
          ELSE Goto(w, next, c, t \o after, o.e, o.r)
      : o \in DockerOutcomes(cmd), out \in OutputChoice(cmd) }

\* A command whose failure of any kind propagates to run(); on success the
\* worker emits after and continues at next ("" returns to run()).
FailFastCommand(w, cmd, capture_output, after, next) ==
    { LET c == Cmd(cmd, o.res)
          t == RunDockerCommandTexts(cmd, o.res, out, capture_output)
      IN  IF o.res = "ok"
          THEN IF next = "" THEN ReturnToRun(w, c, t \o after, o.e, o.r)
               ELSE Goto(w, next, c, t \o after, o.e, o.r)
          ELSE RaiseToRun(w, c, t,
                          IF o.res = "nonzero" THEN RunErrorText(cmd)
                          ELSE {"error"}, o.e, o.r)
      : o \in DockerOutcomes(cmd), out \in OutputChoice(cmd) }

\* (variant) the command of _rebuild_frigate is not wrapped in a try.
ToleratedCommandFailFast(w, cmd, after, next) ==
    FailFastCommand(w, cmd, FALSE, after, next)

\* A command of _rebuild_frigate wrapped in
\*     try: ... except subprocess.CalledProcessError: progress.emit("(...)")
ToleratedCommand(w, cmd, after, next) ==
    { LET c == Cmd(cmd, o.res)
          t == RunDockerCommandTexts(cmd, o.res, out, FALSE)
      IN  IF o.res = "ok" THEN Goto(w, next, c, t \o after, o.e, o.r)
          ELSE IF o.res = "nonzero"
               THEN Goto(w, next, c, t \o <<{}>> \o after, o.e, o.r)
               ELSE RaiseToRun(w, c, t, {"error"}, o.e, o.r)
      : o \in DockerOutcomes(cmd), out \in OutputChoice(cmd) }

\* _check_container_exists ("ps_a") / _check_container_running ("ps"): the
\* query with its answer; a query that cannot be run is caught by the bare
\* except and answers False.
Queried(c, answer) ==
    Cmd(c, IF answer THEN "yes" ELSE IF dockerInstalled THEN "no" ELSE "oserror")

\* DockerWorker.run and the operation functions it calls, one location (pc)
\* per external command:
\*   run                      entry of run()
\*   exists, running          the two queries of _start_frigate,
\*                            _stop_frigate, _restart_frigate, _remove_frigate
\*   st_start                 docker start of _start_frigate
\*   sp_stop                  docker stop of _stop_frigate
\*   rs_restart, rs_start     docker restart / start of _restart_frigate
\*   rm_stop, rm_rm           docker stop / rm of _remove_frigate
\*   rb_exists .. rb_run      _rebuild_frigate
\*   ended                    run() has returned and the thread has ended
\*                            (isRunning() is False)
DockerWorkerStep(w) ==
    LET e == cExists
        r == cRunning
        a == w.action
        none == <<>>
    IN
    CASE w.pc = "run" -> (
           IF w.terminated THEN {ReturnToRun(w, none, <<>>, e, r)}
           ELSE IF a = "rebuild"
                THEN {Goto(w, "rb_exists", none, <<{"starting", "build"}>>, e, r)}
                ELSE {Goto(w, "exists", none, <<>>, e, r)})
      [] w.pc = "exists" -> (
           LET x == CheckContainerExists
               q == Queried("ps_a", x)
           IN  CASE a = "start" ->
                      IF x THEN {Goto(w, "running", q, <<>>, e, r)}
                      ELSE {Goto(w, "rb_exists", q,
                                 <<{"creating"}, {"build"},
                                   {"starting", "build"}>>, e, r)}
                 [] a = "stop" ->
                      IF ~x THEN {ReturnToRun(w, q, <<{}>>, e, r)}
                      ELSE {Goto(w, "running", q, <<>>, e, r)}
                 [] a = "restart" ->
                      IF ~x THEN {RaiseToRun(w, q, <<{}, {}, {"build"}>>,
                                             {"error"}, e, r)}
                      ELSE {Goto(w, "running", q, <<{"starting"}>>, e, r)}
                 [] a = "remove" ->
                      IF ~x THEN {ReturnToRun(w, q, <<{}>>, e, r)}
                      ELSE {Goto(w, "running", q, <<{}>>, e, r)})
      [] w.pc = "running" -> (
           LET y == CheckContainerRunning
               q == Queried("ps", y)
           IN  CASE a = "start" ->
                      IF y THEN {ReturnToRun(w, q, <<{}>>, e, r)}
                      ELSE {Goto(w, "st_start", q, <<{"starting"}>>, e, r)}
                 [] a = "stop" ->
                      IF ~y THEN {ReturnToRun(w, q, <<{}>>, e, r)}
                      ELSE {Goto(w, "sp_stop", q, <<{}>>, e, r)}
                 [] a = "restart" ->
                      {Goto(w, IF y THEN "rs_restart" ELSE "rs_start",
                            q, <<>>, e, r)}
                 [] a = "remove" ->
                      {Goto(w, IF y THEN "rm_stop" ELSE "rm_rm", q, <<>>, e, r)})
      [] w.pc = "st_start" -> (
           FailFastCommand(w, "start", FALSE, <<{"started successfully"}>>, ""))
      [] w.pc = "sp_stop" -> (
           FailFastCommand(w, "stop", FALSE, <<{}>>, ""))
      [] w.pc = "rs_restart" -> (
           FailFastCommand(w, "restart", FALSE, <<{"started successfully"}>>, ""))
      [] w.pc = "rs_start" -> (
           FailFastCommand(w, "start", FALSE, <<{"started successfully"}>>, ""))
      [] w.pc = "rm_stop" -> (
           FailFastCommand(w, "stop", FALSE, <<>>, "rm_rm"))
      [] w.pc = "rm_rm" -> (
           FailFastCommand(w, "rm", FALSE, <<{}>>, ""))
      [] w.pc = "rb_exists" -> (
           LET x == CheckContainerExists
               q == Queried("ps_a", x)
           IN  IF x THEN {Goto(w, "rb_running", q, <<{}>>, e, r)}
               ELSE {Goto(w, "rb_build", q, <<{"building"}>>, e, r)})
      [] w.pc = "rb_running" -> (
           LET y == CheckContainerRunning
               q == Queried("ps", y)
           IN  {Goto(w, IF y THEN "rb_stop" ELSE "rb_rm", q, <<>>, e, r)})
      [] w.pc = "rb_stop" -> (
           ToleratedCommand(w, "stop", <<>>, "rb_rm"))
      [] w.pc = "rb_rm" -> (
           ToleratedCommand(w, "rm", <<{"building"}>>, "rb_build"))
      [] w.pc = "rb_build" -> (
           IF ~repoExists THEN {RaiseToRun(w, none, <<>>, {"error"}, e, r)}
           ELSE FailFastCommand(w, "build", TRUE,
                                <<{}, {"creating", "starting"}>>, "rb_run"))
      [] w.pc = "rb_run" -> (
           FailFastCommand(w, "run", FALSE, <<{}, {"build"}>>, ""))
      [] OTHER -> {}

\* A queued signal: progress with the button state c its text maps to, or
\* finished(ok) of the worker in slot i.
Event(t, i, c, ok) == [t |-> t, w |-> i, c |-> c, ok |-> ok]

\* The queued signals for texts (a text that maps to no button state
\* changes nothing in the launcher and is not queued) and then fin.
RECURSIVE ProgressEvents(_)
ProgressEvents(texts) ==
    IF texts = <<>> THEN <<>>
    ELSE LET c == ClassifyProgress(Head(texts))
         IN  (IF c = "none" THEN <<>> ELSE <<Event("progress", 0, c, FALSE)>>)
             \o ProgressEvents(Tail(texts))

FinishedEvents(i, fin) ==
    IF fin = "none" THEN <<>> ELSE <<Event("finished", i, "none", fin = "true")>>

\* A DockerWorker thread of the launcher takes one step.
DockerWorkerRun(i) ==
    /\ ~closed
    /\ Len(uiq) < MaxQueue
    /\ \E x \in DockerWorkerStep(dw[i]) :
         /\ dw' = [dw EXCEPT ![i] = x.w]
         /\ uiq' = uiq \o ProgressEvents(x.texts) \o FinishedEvents(i, x.fin)
         /\ cExists' = x.e
         /\ cRunning' = x.r
    /\ UNCHANGED <<extVars, repoExists, dockerInstalled, venvExists, gitRepo, missing, iw,
                   uiVars, hist>>

\* ------------------------------------------------------------- history
\* What SpecRun records of one invocation: the external commands run, in
\* order; the number of finished emissions and the value of the last; late,
\* whether a progress text was emitted after a finished emission.
NoHistory == [cmds |-> <<>>, nfin |-> 0, ok |-> FALSE, late |-> FALSE]

\* The history after a step that ran cmds, emitted texts and then fin.
Recorded(h, cmds, texts, fin) ==
    [cmds |-> h.cmds \o cmds,
     nfin |-> IF fin = "none" THEN h.nfin ELSE h.nfin + 1,
     ok |-> IF fin = "none" THEN h.ok ELSE fin = "true",
     late |-> h.late \/ (h.nfin > 0 /\ Len(texts) > 0)]

\* ---------------------------------------------------------- install workers
\* The four install workers of the launcher: InstallWorker ("install"),
\* SystemPrereqInstallWorker ("system_prereq"), DockerInstallWorker
\* ("docker_install") and MemryXInstallWorker ("memryx_install").
InstallKinds == {"install", "system_prereq", "docker_install", "memryx_install"}

\* The constructor arguments that decide the commands of a run():
\* action_type of InstallWorker, install_type of SystemPrereqInstallWorker.
InstallArgs(kind) ==
    CASE kind = "install" -> {"clone_only", "update_only", "skip_frigate"}
      [] kind = "system_prereq" -> {"git", "build-tools"}
      [] OTHER -> {"none"}

\* A started install worker: arg as above, pw whether a (non-empty)
\* sudo_password was passed, arm the architecture MemryXInstallWorker
\* detects (set by its uname -m).
NewInstallWorker(arg, pw) == [arg |-> arg, pw |-> pw, pc |-> "run", arm |-> FALSE]
NoInstallWorker == [NewInstallWorker("none", FALSE) EXCEPT !.pc = "free"]

\* How an external command can end: exit status 0, a non-zero exit status,
\* the binary cannot be executed (OSError), and with a timeout= argument the
\* timeout expiring.
R3 == {"ok", "nonzero", "oserror"}
R4 == R3 \cup {"timeout"}
Failures == {"nonzero", "oserror", "timeout"}

\* n progress texts of an install worker (none is read by the launcher
\* other than "UPDATE_CONFIG_MTIME").
Texts(n) == [k \in 1..n |-> {}]

\* One step of an install worker: as StepResult, with the existence of the
\* frigate repository afterwards.
IStepResult(w2, cmds, texts, fin, repo) ==
    [w |-> w2, cmds |-> cmds, texts |-> texts, fin |-> fin, repo |-> repo]

IGoto(w, pc, cmds, n) ==
    IStepResult([w EXCEPT !.pc = pc], cmds, Texts(n), "none", repoExists)

\* run() reaches self.finished.emit(True) after n more progress texts.
IDone(w, cmds, n) ==
    IStepResult([w EXCEPT !.pc = "ended"], cmds, Texts(n), "true", repoExists)

\* (variant) the except clause does not end run().
IRaiseContinues(w, cmds, n, nfail) ==
    IStepResult(w, cmds, Texts(n + nfail), "false", repoExists)

\* An exception reaches an except clause of run(), which emits nfail
\* progress texts and finished(False).
IRaise(w, cmds, n, nfail) ==
    IStepResult([w EXCEPT !.pc = "ended"], cmds, Texts(n + nfail), "false",
                repoExists)

\* The command c at a location of run(): pre progress texts are emitted
\* before it; a result in tolerated is caught and run() continues at
\* tolnext after tolpost texts; any other failure propagates to run()'s
\* except clauses; on success run() continues at next after post texts.
ICommand(w, c, results, tolerated, pre, next, post, tolnext, tolpost, nfail) ==
    { IF res = "ok" THEN IGoto(w, next, Cmd(c, res), pre + post)
      ELSE IF res \in tolerated THEN IGoto(w, tolnext, Cmd(c, res), pre + tolpost)
      ELSE IRaise(w, Cmd(c, res), pre, nfail)
      : res \in results }

\* (variant) every failure of the command is caught and run() continues.
ICheckedTolerant(w, c, results, pre, next, post, nfail) ==
    ICommand(w, c, results, Failures, pre, next, post, next, post, nfail)

\* A command run with check=True (or whose result is tested and raised on)
\* outside any inner try.
IChecked(w, c, results, pre, next, post, nfail) ==
    ICommand(w, c, results, {}, pre, next, post, next, post, nfail)

\* SystemPrereqInstallWorker.run with _install_git / _install_build_tools.
SystemPrereqInstallWorkerStep(w) ==
    LET git == w.arg = "git"
    IN
    CASE w.pc = "run" -> ({IGoto(w, "apt_update", <<>>, 0)})
      [] w.pc = "apt_update" -> (
           IChecked(w, "apt update", R3, 2, "apt_install", 0, 1))
      [] w.pc = "apt_install" -> (
           IChecked(w, "apt install", R3, 1,
                    IF git THEN "git_version" ELSE "gcc_version", 0, 1))
      [] w.pc = "git_version" -> (
           IChecked(w, "git --version", R3, 0, "finish", 1, 1))
      [] w.pc = "gcc_version" -> (
           IChecked(w, "gcc --version", R3, 0, "make_version", 1, 1))
      [] w.pc = "make_version" -> (
           IChecked(w, "make --version", R3, 0, "cmake_version", 1, 1))
      [] w.pc = "cmake_version" -> (
           IChecked(w, "cmake --version", R3, 0, "finish", 1, 1))
      [] w.pc = "finish" -> ({IDone(w, <<>>, 0)})
      [] OTHER -> {}

\* InstallWorker._setup_python_env entered after n progress texts: an
\* existing environment is probed, otherwise it is created.
EnterSetupPythonEnv(w, cmds, n) ==
    IF venvExists THEN IGoto(w, "pip_version", cmds, n + 1)
    ELSE IGoto(w, "venv_create", cmds, n + 3)

\* InstallWorker.run after _setup_python_env: the repository action chosen
\* by action_type, up to its first command.
EnterRepositoryAction(w, cmds, n) ==
    CASE w.arg = "clone_only" ->
           IGoto(w, "git_clone", cmds, n + (IF repoExists THEN 3 ELSE 2))
      [] w.arg = "update_only" ->
           IF ~repoExists \/ ~gitRepo THEN IRaise(w, cmds, n + 1, 2)
           ELSE IGoto(w, "git_status", cmds, n + 1)
      [] w.arg = "skip_frigate" -> IGoto(w, "finish", cmds, n + 1)

\* InstallWorker.run with _check_dependencies, _setup_python_env,
\* _clone_frigate, _update_frigate, _setup_config_directory and
\* _create_default_config.
InstallWorkerStep(w) ==
    CASE w.pc = "run" -> ({IGoto(w, "which_git", <<>>, 1)})
      [] w.pc = "which_git" -> (
           IChecked(w, "which git", R3, 0, "which_python3", 0, 2))
      [] w.pc = "which_python3" -> (
           IChecked(w, "which python3", R3, 0, "which_docker", 0, 2))
      [] w.pc = "which_docker" -> (
           IChecked(w, "which docker", R3, 0, "docker_version", 0, 2))
      [] w.pc = "docker_version" -> (
           IChecked(w, "docker --version", R4, 0, "systemctl_is_active", 0, 2))
      [] w.pc = "systemctl_is_active" -> (
           \* stdout is compared with 'active'; only a timeout is caught
           { IF res = "ok" THEN EnterSetupPythonEnv(w, Cmd("systemctl is-active", res), 0)
             ELSE IF res = "timeout"
                  THEN IGoto(w, "docker_info", Cmd("systemctl is-active", res), 0)
                  ELSE IRaise(w, Cmd("systemctl is-active", res), 0, 2)
             : res \in R4 })
      [] w.pc = "docker_info" -> (
           { IF res = "ok" THEN EnterSetupPythonEnv(w, Cmd("docker info", res), 0)
             ELSE IRaise(w, Cmd("docker info", res), 0, 2)
             : res \in R4 })
      [] w.pc = "pip_version" -> (
           \* try: ... except: pass
           ICommand(w, "pip --version", R4, Failures, 0, "pip_show", 0,
                    "venv_create", 3, 2))
      [] w.pc = "pip_show" -> (
           { IF res = "ok" THEN EnterRepositoryAction(w, Cmd("pip show", res), 1)
             ELSE IGoto(w, "venv_create", Cmd("pip show", res), 3)
             : res \in R4 })
      [] w.pc = "venv_create" -> (
           IChecked(w, "python -m venv", R3, 0, "pip_upgrade", 1, 2))
      [] w.pc = "pip_upgrade" -> (
           IChecked(w, "pip install --upgrade pip", R3, 0, "pip_install", 0, 2))
      [] w.pc = "pip_install" -> (
           { IF res = "ok" THEN EnterRepositoryAction(w, Cmd("pip install", res), 1)
             ELSE IRaise(w, Cmd("pip install", res), 0, 2)
             : res \in R3 })
      [] w.pc = "git_clone" -> (
           \* the existing directory has been removed; after the clone the
           \* config directory and the default config.yaml are set up, the
           \* latter announced by "UPDATE_CONFIG_MTIME" when it is written
           { IF res = "ok"
             THEN [IGoto(w, "finish", Cmd("git clone", res), 0)
                     EXCEPT !.repo = TRUE, !.texts = Texts(3) \o mtime]
             ELSE [IRaise(w, Cmd("git clone", res), 0, 2) EXCEPT !.repo = FALSE]
             : res \in R3, mtime \in {<<>>, <<{"UPDATE_CONFIG_MTIME"}>>} })
      [] w.pc = "git_status" -> (
           \* local changes are stashed first
           { IF res = "ok"
             THEN IGoto(w, next, Cmd("git status", res),
                        IF next = "git_stash" THEN 2 ELSE 1)
             ELSE IRaise(w, Cmd("git status", res), 0, 2)
             : res \in R3, next \in {"git_stash", "git_fetch"} })
      [] w.pc = "git_stash" -> (
           IChecked(w, "git stash", R3, 0, "git_fetch", 1, 2))
      [] w.pc = "git_fetch" -> (
           IChecked(w, "git fetch", R3, 0, "git_branch", 0, 2))
      [] w.pc = "git_branch" -> (
           \* a detached HEAD (no current branch) is not pulled
           { IF res = "ok"
             THEN IGoto(w, next, Cmd("git branch", res),
                        IF next = "git_pull" THEN 1 ELSE 2)
             ELSE IRaise(w, Cmd("git branch", res), 0, 2)
             : res \in R3, next \in {"git_pull", "finish"} })
      [] w.pc = "git_pull" -> (
           IChecked(w, "git pull", R3, 0, "finish", 2, 2))
      [] w.pc = "finish" -> ({IDone(w, <<>>, 1)})
      [] OTHER -> {}

\* DockerInstallWorker.run with its helpers run_sudo_command and
\* write_sudo_file.
DockerInstallWorkerStep(w) ==
    CASE w.pc = "run" -> ({IGoto(w, "rm_list", <<>>, 2)})
      [] w.pc = "rm_list" -> (
           \* Step 0, both rm in one try: except CalledProcessError: pass
           ICommand(w, "rm -f docker.list", R3, {"nonzero"}, 0, "rm_asc", 0,
                    "apt_update", 0, 1))
      [] w.pc = "rm_asc" -> (
           ICommand(w, "rm -f docker.asc", R3, {"nonzero"}, 0, "apt_update", 0,
                    "apt_update", 0, 1))
      [] w.pc = "apt_update" -> (
           IChecked(w, "apt-get update", R3, 1, "apt_install", 0, 1))
      [] w.pc = "apt_install" -> (
           IChecked(w, "apt-get install ca-certificates curl", R3, 1,
                    "install_keyrings", 0, 1))
      [] w.pc = "install_keyrings" -> (
           IChecked(w, "install -d keyrings", R3, 1, "curl_gpg", 0, 1))
      [] w.pc = "curl_gpg" -> (
           IChecked(w, "curl docker gpg", R3, 0, "chmod_gpg", 0, 1))
      [] w.pc = "chmod_gpg" -> (
           IChecked(w, "chmod docker.asc", R3, 0, "dpkg_arch", 0, 1))
      [] w.pc = "dpkg_arch" -> (
           IChecked(w, "dpkg --print-architecture", R3, 1, "os_release", 0, 1))
      [] w.pc = "os_release" -> (
           \* /etc/os-release is read: no VERSION_CODENAME raises; then
           \* write_sudo_file without a password writes the file itself
           {IRaise(w, <<>>, 0, 1)} \cup
           (IF w.pw THEN {IGoto(w, "mv_list", <<>>, 1)}
            ELSE {IGoto(w, "cat_list", <<>>, 1), IRaise(w, <<>>, 1, 1)}))
      [] w.pc = "mv_list" -> (
           IChecked(w, "mv docker.list", R3, 0, "cat_list", 0, 1))
      [] w.pc = "cat_list" -> (
           ICommand(w, "cat docker.list", R3, {"nonzero"}, 0, "apt_update2", 1,
                    "apt_update2", 1, 1))
      [] w.pc = "apt_update2" -> (
           IChecked(w, "apt-get update (docker repo)", R3, 1,
                    "apt_install_docker", 0, 1))
      [] w.pc = "apt_install_docker" -> (
           IChecked(w, "apt-get install docker-ce", R3, 1, "systemctl_start", 0, 1))
      [] w.pc = "systemctl_start" -> (
           IChecked(w, "systemctl start docker", R3, 1, "systemctl_enable", 0, 1))
      [] w.pc = "systemctl_enable" -> (
           IChecked(w, "systemctl enable docker", R3, 0, "groupadd", 0, 1))
      [] w.pc = "groupadd" -> (
           ICommand(w, "groupadd docker", R3, {"nonzero"}, 1, "usermod", 0,
                    "usermod", 0, 1))
      [] w.pc = "usermod" -> (
           IChecked(w, "usermod -aG docker", R3, 0, "docker_version", 0, 1))
      [] w.pc = "docker_version" -> (
           \* except (CalledProcessError, FileNotFoundError): reinstall
           ICommand(w, "docker --version", R3, {"nonzero", "oserror"}, 1,
                    "systemctl_is_active", 1, "reinstall", 2, 1))
      [] w.pc = "reinstall" -> (
           \* except Exception: progress, self.finished.emit(False), return
           ICommand(w, "apt-get reinstall docker-ce-cli", R3, {}, 0,
                    "docker_version2", 0, "", 0, 1))
      [] w.pc = "docker_version2" -> (
           IChecked(w, "docker --version (after reinstall)", R3, 0,
                    "systemctl_is_active", 1, 1))
      [] w.pc = "systemctl_is_active" -> (
           \* check=True; stdout other than 'active' starts the service
           { IF res = "ok" THEN IGoto(w, next, Cmd("systemctl is-active", res), 1)
             ELSE IF res = "nonzero"
                  THEN IGoto(w, "hello_world", Cmd("systemctl is-active", res), 1)
                  ELSE IRaise(w, Cmd("systemctl is-active", res), 0, 1)
             : res \in R3, next \in {"hello_world", "systemctl_start2"} })
      [] w.pc = "systemctl_start2" -> (
           ICommand(w, "systemctl start docker (verify)", R3, {"nonzero"}, 0,
                    "hello_world", 0, "hello_world", 1, 1))
      [] w.pc = "hello_world" -> (
           ICommand(w, "docker run hello-world", R3, {"nonzero"}, 0, "finish", 1,
                    "finish", 2, 1))
      [] w.pc = "finish" -> ({IDone(w, <<>>, 2)})
      [] OTHER -> {}

\* MemryXInstallWorker.run: a command of GPG method 1, whose
\* CalledProcessError starts method 2 after two progress texts.
GpgMethod1(w, c, next) ==
    ICommand(w, c, R3, {"nonzero"}, 0, next, 0, "gpg_curl", 2, 1)

\* MemryXInstallWorker.run after the GPG key: write_sudo_file of the
\* repository entry, which without a password writes the file itself.
EnterWriteRepository(w, cmds) ==
    IF w.pw THEN {IGoto(w, "mv_list", cmds, 1)}
    ELSE {IGoto(w, "apt_update2", cmds, 2), IRaise(w, cmds, 1, 1)}

\* MemryXInstallWorker.run with its helpers run_sudo_command and
\* write_sudo_file.
MemryXInstallWorkerStep(w) ==
    CASE w.pc = "run" -> ({IGoto(w, "uname_m", <<>>, 1)})
      [] w.pc = "uname_m" -> (
           { IF res = "ok"
             THEN IGoto([w EXCEPT !.arm = arm], "apt_mark_unhold", Cmd("uname -m", res), 2)
             ELSE IRaise(w, Cmd("uname -m", res), 0, 1)
             : res \in R3, arm \in BOOLEAN })
      [] w.pc = "apt_mark_unhold" -> (
           ICommand(w, "apt-mark unhold", R3, {"nonzero"}, 0, "apt_purge", 0,
                    "apt_purge", 0, 1))
      [] w.pc = "apt_purge" -> (
           ICommand(w, "apt purge", R3, {"nonzero"}, 0, "rm_repo", 0,
                    "rm_repo", 0, 1))
      [] w.pc = "rm_repo" -> (
           ICommand(w, "rm -f memryx repo and keys", R3, {"nonzero"}, 0,
                    "apt_key_list", 0, "apt_key_list", 0, 1))
      [] w.pc = "apt_key_list" -> (
           \* no check=True: the exit status is not read, stdout decides
           \* whether the old key is deleted
           { IF res = "oserror" THEN IRaise(w, Cmd("apt-key list", res), 0, 1)
             ELSE IGoto(w, next, Cmd("apt-key list", res), 0)
             : res \in R3, next \in {"apt_key_del", "uname_r"} })
      [] w.pc = "apt_key_del" -> (
           ICommand(w, "apt-key del", R3, {"nonzero"}, 0, "uname_r", 0,
                    "uname_r", 0, 1))
      [] w.pc = "uname_r" -> (
           IChecked(w, "uname -r", R3, 0, "apt_update", 1, 1))
      [] w.pc = "apt_update" -> (
           IChecked(w, "apt update", R3, 0, "apt_install_headers", 0, 1))
      [] w.pc = "apt_install_headers" -> (
           IChecked(w, "apt install dkms linux-headers", R3, 0, "wget_key", 2, 1))
      [] w.pc = "wget_key" -> (GpgMethod1(w, "wget memryx.asc", "gpg_dearmor"))
      [] w.pc = "gpg_dearmor" -> (GpgMethod1(w, "gpg --dearmor", "cp_gpg"))
      [] w.pc = "cp_gpg" -> (GpgMethod1(w, "cp memryx.gpg", "chmod_gpg"))
      [] w.pc = "chmod_gpg" -> (GpgMethod1(w, "chmod memryx.gpg", "chown_gpg"))
      [] w.pc = "chown_gpg" -> (GpgMethod1(w, "chown memryx.gpg", "rm_tmp"))
      [] w.pc = "rm_tmp" -> (
           \* check=False
           UNION { IF res = "oserror" THEN {IRaise(w, Cmd("rm -f tmp keys", res), 0, 1)}
                   ELSE EnterWriteRepository(w, Cmd("rm -f tmp keys", res))
                   : res \in R3 })
      [] w.pc = "gpg_curl" -> (
           \* method 2: curl is launched with Popen, then the second Popen
           \* is called with input= and capture_output=, which Popen does
           \* not accept: TypeError, caught by run()'s except Exception
           { IRaise(w, Cmd("curl memryx.asc", res), 0, 1) : res \in {"ok", "oserror"} })
      [] w.pc = "mv_list" -> (
           IChecked(w, "mv memryx.list", R3, 0, "apt_update2", 1, 1))
      [] w.pc = "apt_update2" -> (
           ICommand(w, "apt update (memryx repo)", R3, {"nonzero"}, 0,
                    "apt_install_drivers", 1, "apt_install_drivers", 1, 1))
      [] w.pc = "apt_install_drivers" -> (
           \* except CalledProcessError: apt search, then raise e
           { IF res = "ok"
             THEN IGoto(w, next, Cmd("apt install memx-drivers", res),
                        IF next = "mx_arm_setup" THEN 2 ELSE 3)
             ELSE IF res = "nonzero"
                  THEN IGoto(w, "apt_search", Cmd("apt install memx-drivers", res), 1)
                  ELSE IRaise(w, Cmd("apt install memx-drivers", res), 0, 1)
             : res \in R3,
               next \in {IF w.arm THEN "mx_arm_setup" ELSE "apt_install_accl"} })
      [] w.pc = "apt_search" -> (
           \* its own failure is caught (except Exception) and reported
           { IRaise(w, Cmd("apt search memx-drivers", res), 1, 1) : res \in R3 })
      [] w.pc = "mx_arm_setup" -> (
           IChecked(w, "mx_arm_setup", R3, 0, "apt_install_accl", 2, 1))
      [] w.pc = "apt_install_accl" -> (
           IChecked(w, "apt install memx-accl", R3, 0, "apt_install_manager", 1, 1))
      [] w.pc = "apt_install_manager" -> (
           IChecked(w, "apt install mxa-manager", R3, 0, "finish", 0, 1))
      [] w.pc = "finish" -> ({IDone(w, <<>>, 2)})
      [] OTHER -> {}

\* run() of the install worker of a kind.
InstallStep(kind, w) ==
    CASE kind = "install" -> InstallWorkerStep(w)
      [] kind = "system_prereq" -> SystemPrereqInstallWorkerStep(w)
      [] kind = "docker_install" -> DockerInstallWorkerStep(w)
      [] kind = "memryx_install" -> MemryXInstallWorkerStep(w)

\* ---------------------------------------------------------------- launcher
\* The operation controls of the Docker Manager tab and of the
\* PreConfigured tab.
Buttons == {"docker_start_btn", "docker_stop_btn", "docker_restart_btn",
            "docker_rebuild_btn", "docker_remove_btn",
            "preconfigured_start_btn", "preconfigured_stop_btn"}

\* What triggers docker_action(action): a button (which must be enabled),
\* or a Tools menu entry / keyboard shortcut / Overview quick-action button
\* ("menu"), none of which is ever disabled.
Triggers(action) ==
    CASE action = "start" -> {"docker_start_btn", "preconfigured_start_btn", "menu"}
      [] action = "stop" -> {"docker_stop_btn", "menu"}
      [] action = "restart" -> {"docker_restart_btn", "menu"}
      [] action = "rebuild" -> {"docker_rebuild_btn"}
      [] action = "remove" -> {"docker_remove_btn", "preconfigured_stop_btn"}

\* The buttons that start an install worker.
InstallButtons == {"clone_frigate_btn", "update_frigate_btn", "install_git_btn",
                   "install_build_btn", "install_docker_prereq_btn",
                   "install_memryx_prereq_btn"}

\* The buttons that install_setup_dependency disables.
SetupButtons == {"install_setup_python_btn", "install_setup_pip_btn",
                 "install_setup_venv_btn"}

\* update_step2_guidance: the update button is enabled for a valid git
\* repository only.
Step2UpdateEnabled == repoExists /\ gitRepo

\* The enabled state of the buttons after construction: the PreConfigured
\* buttons are disabled until initialization completes.
InitialButtons ==
    [b \in Buttons \cup InstallButtons \cup SetupButtons |->
       CASE b \in {"preconfigured_start_btn", "preconfigured_stop_btn"} -> FALSE
         [] b = "update_frigate_btn" -> Step2UpdateEnabled
         [] OTHER -> TRUE]

TriggerEnabled(t) == IF t = "menu" THEN TRUE ELSE btn[t]

\* FrigateLauncher._check_container_exists_sync (docker ps -a on the UI thread)
CheckContainerExistsSync == dockerInstalled /\ cExists
\* ... the subprocess.run of that check, which the calling handler waits for.
CheckContainerExistsSyncCmd ==
    Cmd("docker ps -a --filter name=frigate",
        IF dockerInstalled THEN "ok" ELSE "oserror")

\* FrigateLauncher.set_docker_buttons_enabled(enabled, keep_stop_enabled)
SetDockerButtonsEnabled(b, enabled, keep_stop_enabled) ==
    [b EXCEPT !["docker_start_btn"] = enabled,
              !["docker_stop_btn"] = enabled \/ keep_stop_enabled,
              !["docker_restart_btn"] =
                  IF enabled THEN CheckContainerExistsSync ELSE FALSE,
              !["docker_rebuild_btn"] = enabled,
              !["docker_remove_btn"] = enabled]

\* FrigateLauncher.update_preconfigured_button_state(state): the enabled
\* state of the two PreConfigured buttons (button_operation_state becomes
\* state).
UpdatePreconfiguredButtonState(b, state) ==
    CASE state = "idle" ->
           [b EXCEPT !["preconfigured_start_btn"] = TRUE,
                     !["preconfigured_stop_btn"] = FALSE]
      [] state \in {"building", "starting"} ->
           [b EXCEPT !["preconfigured_start_btn"] = FALSE]
      [] state = "stopping" ->
           [b EXCEPT !["preconfigured_start_btn"] = FALSE,
                     !["preconfigured_stop_btn"] = FALSE]
      [] state = "running" ->
           [b EXCEPT !["preconfigured_start_btn"] = FALSE,
                     !["preconfigured_stop_btn"] = TRUE]
      [] state = "stopped" ->
           [b EXCEPT !["preconfigured_start_btn"] = TRUE,
                     !["preconfigured_stop_btn"] = FALSE]
      [] state = "error" ->
           [b EXCEPT !["preconfigured_start_btn"] = TRUE]

\* docker_action, "DISABLE BUTTONS TO PREVENT CONFLICTS": the controls after
\* the disabling block.
DisableForOperation(b, action) ==
    LET keep_stop_enabled == action # "stop"
    IN  [SetDockerButtonsEnabled(b, FALSE, keep_stop_enabled)
           EXCEPT !["preconfigured_start_btn"] = FALSE,
                  !["preconfigured_stop_btn"] = keep_stop_enabled]


\* docker_action, "Create and start the worker", with the controls b.
CreateAndStartWorker(action, b) ==
    /\ LET i == CHOOSE k \in 1..MaxWorkers :
                   /\ dw[k].pc = "free"
                   /\ \A j \in 1..(k - 1) : dw[j].pc # "free"
       IN  /\ dw' = [dw EXCEPT ![i] = NewDockerWorker(action)]
           /\ docker_worker' = i
           /\ ops' = ops + 1
    /\ IF action \in {"start", "rebuild"}
       THEN /\ button_operation_state' = "building"
            /\ btn' = UpdatePreconfiguredButtonState(b, "building")
       ELSE IF action = "remove"
       THEN /\ button_operation_state' = "stopping"
            /\ btn' = UpdatePreconfiguredButtonState(b, "stopping")
       ELSE /\ button_operation_state' = button_operation_state
            /\ btn' = b

Frame(h, action, i, ok) == [h |-> h, action |-> action, w |-> i, ok |-> ok]

\* The suspended docker_action call of a "Confirm Action" question; before
\* is history: the controls as they were when docker_action was called.
Asked(action, before) ==
    [h |-> "confirm", action |-> action, w |-> 0, ok |-> FALSE,
     before |-> before]

\* The UI thread accepts user input on the main window: the launcher is
\* open and no modal dialog is.
AcceptsInput == ~closed /\ uistack = <<>>
\* The event loop (also the nested one of a modal dialog) dispatches.
Dispatches == ~closed

\* QTimer.singleShot(100, self._initialize_async_components)
InitializeAsyncComponents ==
    /\ Dispatches
    /\ is_initializing
    /\ is_initializing' = FALSE
    /\ btn' = [btn EXCEPT !["preconfigured_start_btn"] = TRUE,
                          !["preconfigured_stop_btn"] = TRUE]
    /\ UNCHANGED <<extVars, envVars, iw, hist, dw, uiq, uistack, timers, docker_worker,
                   current_docker_action, button_operation_state,
                   first_start_flag, closed, ops, req>>

\* docker_action(action) while the application is still initializing.
DockerActionInitializing(action) ==
    /\ AcceptsInput
    /\ is_initializing
    /\ \E t \in Triggers(action) : TriggerEnabled(t)
    /\ req' = "initializing"
    /\ UNCHANGED <<extVars, envVars, iw, hist, dw, uiq, uistack, timers, docker_worker,
                   current_docker_action, is_initializing,
                   button_operation_state, btn, first_start_flag, closed, ops>>

\* docker_action(action), "PREVENT MULTIPLE CONCURRENT OPERATIONS": the
\* worker self.docker_worker refers to is running; only a warning is added.
DockerActionRejected(action) ==
    /\ AcceptsInput
    /\ ~is_initializing
    /\ \E t \in Triggers(action) : TriggerEnabled(t)
    /\ docker_worker # 0
    /\ IsRunning(dw[docker_worker])
    /\ req' = "rejected"
    /\ UNCHANGED <<extVars, envVars, iw, hist, dw, uiq, uistack, timers, docker_worker,
                   current_docker_action, is_initializing,
                   button_operation_state, btn, first_start_flag, closed, ops>>

\* docker_action(action) past the guard, up to the first modal dialog it
\* opens or to its end.
DockerActionAccepted(action) ==
    /\ AcceptsInput
    /\ ~is_initializing
    /\ \E t \in Triggers(action) : TriggerEnabled(t)
    /\ docker_worker # 0 => ~IsRunning(dw[docker_worker])
    /\ \E k \in 1..MaxWorkers : dw[k].pc = "free"
    /\ ops < MaxOps
    /\ current_docker_action' = action
    /\ req' = "accepted"
    /\ IF action = "start" /\ ~first_start_flag /\ ~CheckContainerExistsSync
       THEN \* show_first_time_startup_info: info_dialog.exec()
            /\ uistack' = Append(uistack, Frame("firstinfo", action, 0, FALSE))
            /\ docker_worker' = 0
            /\ UNCHANGED <<dw, btn, button_operation_state, ops>>
       ELSE IF action \in {"rebuild", "remove"}
       THEN \* QMessageBox.question(self, "Confirm Action", ...)
            /\ uistack' = Append(uistack, Asked(action, btn))
            /\ docker_worker' = 0
            /\ btn' = DisableForOperation(btn, action)
            /\ UNCHANGED <<dw, button_operation_state, ops>>
       ELSE /\ CreateAndStartWorker(action, DisableForOperation(btn, action))
            /\ UNCHANGED uistack
    /\ uicmds' = IF action = "start"
                 THEN \* show_first_time_startup_info_if_needed
                      CheckContainerExistsSyncCmd
                 ELSE uicmds
    /\ UNCHANGED <<cfgVars, docVars, auxVars, statusVars, envVars, iw, hist, uiq, timers, is_initializing,
                   first_start_flag, closed>>

\* The user closes the first-time startup dialog: the flag file is written
\* and docker_action('start') goes on to disable the controls and to start
\* the worker.
FirstInfoClosed ==
    /\ ~closed
    /\ uistack # <<>>
    /\ LET f == uistack[Len(uistack)]
       IN  /\ f.h = "firstinfo"
           /\ uistack' = SubSeq(uistack, 1, Len(uistack) - 1)
           /\ first_start_flag' = TRUE
           /\ CreateAndStartWorker(f.action, DisableForOperation(btn, f.action))
    /\ UNCHANGED <<extVars, envVars, iw, hist, uiq, timers,
                   current_docker_action, is_initializing, closed, req>>

\* The user answers the "Confirm Action" question of a rebuild or remove.
ConfirmAnswered(yes) ==
    /\ ~closed
    /\ uistack # <<>>
    /\ LET f == uistack[Len(uistack)]
       IN  /\ f.h = "confirm"
           /\ uistack' = SubSeq(uistack, 1, Len(uistack) - 1)
           /\ IF yes
              THEN /\ CreateAndStartWorker(f.action, btn)
                   /\ UNCHANGED uicmds
              ELSE \* "RE-ENABLE BUTTONS IF USER CANCELS"
                   /\ btn' = SetDockerButtonsEnabled(btn, TRUE, FALSE)
                   /\ uicmds' = CheckContainerExistsSyncCmd
                   /\ UNCHANGED <<dw, docker_worker, button_operation_state,
                                  ops>>
    /\ UNCHANGED <<cfgVars, docVars, auxVars, statusVars, envVars, iw, hist, uiq, timers,
                   current_docker_action, is_initializing, first_start_flag,
                   closed, req>>

\* on_docker_progress_for_button(text), for a queued progress signal.
OnDockerProgressForButton ==
    /\ Dispatches
    /\ uiq # <<>>
    /\ Head(uiq).t = "progress"
    /\ uiq' = Tail(uiq)
    /\ button_operation_state' = Head(uiq).c
    /\ btn' = UpdatePreconfiguredButtonState(btn, Head(uiq).c)
    /\ UNCHANGED <<extVars, envVars, iw, hist, dw, uistack, timers, docker_worker,
                   current_docker_action, is_initializing, first_start_flag,
                   closed, ops, req>>

\* on_docker_finished(success) up to its message box
\* (QMessageBox.information / QMessageBox.warning).
OnDockerFinished ==
    /\ Dispatches
    /\ uiq # <<>>
    /\ Head(uiq).t = "finished"
    /\ Len(uistack) < MaxStack
    /\ uiq' = Tail(uiq)
    /\ LET state == IF current_docker_action = "start"
                    THEN IF Head(uiq).ok THEN "running" ELSE "error"
                    ELSE "idle"
       IN  /\ button_operation_state' = state
           /\ btn' = UpdatePreconfiguredButtonState(btn, state)
    /\ uistack' = Append(uistack, Frame("finished", current_docker_action,
                                        Head(uiq).w, Head(uiq).ok))
    /\ UNCHANGED <<extVars, envVars, iw, hist, dw, timers, docker_worker, current_docker_action,
                   is_initializing, first_start_flag, closed, ops, req>>

\* The user closes the message box of on_docker_finished, which then
\* re-enables the controls and drops the worker reference; the worker
\* object whose signal this was is gone.
OnDockerFinishedClosed ==
    /\ ~closed
    /\ uistack # <<>>
    /\ LET f == uistack[Len(uistack)]
       IN  /\ f.h = "finished"
           /\ uistack' = SubSeq(uistack, 1, Len(uistack) - 1)
           /\ timers' = IF f.ok /\ f.action = "remove"
                        THEN timers \cup {"stopped"} ELSE timers
           /\ btn' = [SetDockerButtonsEnabled(btn, TRUE, FALSE)
                        EXCEPT !["preconfigured_start_btn"] = TRUE]
           /\ docker_worker' = 0
           /\ dw' = [dw EXCEPT ![f.w] = NoWorker]
    /\ uicmds' = CheckContainerExistsSyncCmd
    /\ UNCHANGED <<cfgVars, docVars, auxVars, statusVars, envVars, iw, hist, uiq, current_docker_action,
                   is_initializing, button_operation_state, first_start_flag,
                   closed, ops, req>>

\* QTimer.singleShot(500, lambda: self.update_preconfigured_button_state("stopped"))
StoppedTimerFires ==
    /\ Dispatches
    /\ "stopped" \in timers
    /\ timers' = timers \ {"stopped"}
    /\ button_operation_state' = "stopped"
    /\ btn' = UpdatePreconfiguredButtonState(btn, "stopped")
    /\ UNCHANGED <<extVars, envVars, iw, hist, dw, uiq, uistack, docker_worker,
                   current_docker_action, is_initializing, first_start_flag,
                   closed, ops, req>>

\* update_preconfigured_button_states, run from the PreConfigured tab's
\* refresh timer and from the single-shot timers that on_docker_finished and
\* the tab's creation start.
UpdatePreconfiguredButtonStates ==
    /\ Dispatches
    /\ ~is_initializing
    /\ button_operation_state \notin {"building", "starting", "stopping"}
    /\ LET container_exists == CheckContainerExistsSync
           container_running == container_exists /\ cRunning
           state == IF container_running THEN "running" ELSE "idle"
       IN  /\ button_operation_state' = state
           /\ btn' = UpdatePreconfiguredButtonState(btn, state)
           /\ uicmds' = CheckContainerExistsSyncCmd \o
                        (IF container_exists
                         THEN Cmd("docker ps --filter name=frigate", "ok")
                         ELSE <<>>)
    /\ UNCHANGED <<cfgVars, docVars, auxVars, statusVars, envVars, iw, hist, dw, uiq, uistack, timers, docker_worker,
                   current_docker_action, is_initializing, first_start_flag,
                   closed, ops, req>>

\* StatusCheckWorker._check_frigate_status: what its text says of the
\* container ("other": not created, Docker missing, a timeout, an error).
CheckFrigateStatus ==
    IF ~dockerInstalled THEN {"other"}
    ELSE {IF cExists THEN IF cRunning THEN "running" ELSE "stopped"
          ELSE "other", "other"}

\* A status poll (status_timer every 5 s, or check_status), from the
\* StatusCheckWorker's run to the handling of its status_updated signal:
\* update_status_from_worker -> update_button_states_from_status.
StatusCheck ==
    /\ Dispatches
    /\ ~is_initializing
    /\ \E st \in CheckFrigateStatus :
         LET container_running == st = "running"
             container_exists == container_running \/ st = "stopped"
         IN  btn' = [btn EXCEPT !["docker_restart_btn"] = container_exists,
                                !["docker_remove_btn"] = container_exists]
    /\ UNCHANGED <<extVars, envVars, iw, hist, dw, uiq, uistack, timers, docker_worker,
                   current_docker_action, is_initializing,
                   button_operation_state, first_start_flag, closed, ops, req>>

\* closeEvent: a running self.docker_worker is terminated (DockerWorker.
\* terminate sets _terminated) and the reference dropped, the timers are
\* stopped and the event is accepted: the application quits, what is still
\* queued is never dispatched.
CloseEvent ==
    /\ AcceptsInput
    /\ closed' = TRUE
    /\ docker_worker' = 0
    /\ dw' = IF docker_worker # 0 /\ IsRunning(dw[docker_worker])
             THEN [dw EXCEPT ![docker_worker].terminated = TRUE]
             ELSE dw
    /\ timers' = {}
    /\ uiq' = <<>>
    /\ UNCHANGED <<extVars, envVars, iw, hist, uistack, current_docker_action, is_initializing,
                   button_operation_state, btn, first_start_flag, ops, req>>

\* ---------------------------------------------------------- specification
Init ==
    /\ InitExt
    /\ cExists \in BOOLEAN
    /\ cRunning \in BOOLEAN
    /\ cRunning => cExists
    /\ repoExists \in BOOLEAN
    /\ dockerInstalled \in BOOLEAN
    /\ venvExists = TRUE
    /\ gitRepo = repoExists
    /\ missing = {}
    /\ iw = [k \in InstallKinds |-> NoInstallWorker]
    /\ hist = NoHistory
    /\ dw = [i \in 1..MaxWorkers |-> NoWorker]
    /\ uiq = <<>>
    /\ uistack = <<>>
    /\ timers = {}
    /\ docker_worker = 0
    /\ current_docker_action = "none"
    /\ is_initializing = TRUE
    /\ button_operation_state = "idle"
    /\ btn = InitialButtons
    /\ first_start_flag \in BOOLEAN
    /\ closed = FALSE
    /\ ops = 0
    /\ req = "none"

Next ==
    \/ InitializeAsyncComponents
    \/ \E a \in Actions : DockerActionInitializing(a)
    \/ \E a \in Actions : DockerActionRejected(a)
    \/ \E a \in Actions : DockerActionAccepted(a)
    \/ FirstInfoClosed
    \/ \E yes \in BOOLEAN : ConfirmAnswered(yes)
    \/ OnDockerProgressForButton
    \/ OnDockerFinished
    \/ OnDockerFinishedClosed
    \/ StoppedTimerFires
    \/ UpdatePreconfiguredButtonStates
    \/ StatusCheck
    \/ CloseEvent
    \/ \E i \in 1..MaxWorkers : DockerWorkerRun(i)

Spec == Init /\ [][Next]_vars

\* The controls that docker_action disables before it asks for the
\* confirmation of a rebuild or remove.
DisabledBeforeAsking ==
    {b \in Buttons :
       ~DisableForOperation([x \in DOMAIN btn |-> TRUE], "rebuild")[b]}

\* C29: when the user declines the "Confirm Action" question of a rebuild
\* or remove, no DockerWorker is created or started, and every control
\* that docker_action disabled before asking is enabled or disabled as it
\* was when docker_action was called.
C29_DeclineRestoresControls ==
    [][ConfirmAnswered(FALSE) =>
         /\ dw' = dw
         /\ docker_worker' = docker_worker
         /\ \A b \in DisabledBeforeAsking :
               btn'[b] = uistack[Len(uistack)].before[b]]_vars

\* ------------------------------------------------- one worker invocation
\* One invocation of one worker of any of the five kinds, from start() to
\* the end of its thread, with what it emits and runs recorded in hist.
\* The launcher does not act, except that it may terminate a DockerWorker
\* (closeEvent is the only caller of terminate()).
launcherVars == <<uiq, uistack, timers, docker_worker, current_docker_action,
                  is_initializing, button_operation_state, btn,
                  first_start_flag, closed, ops, req>>

\* The part of the environment the observed worker does not read is fixed.
InitRun ==
    /\ InitExt
    /\ hist = NoHistory
    /\ missing = {}
    /\ \/ /\ \E a \in Actions :
               dw = [i \in 1..MaxWorkers |->
                       IF i = 1 THEN NewDockerWorker(a) ELSE NoWorker]
          /\ iw = [k \in InstallKinds |-> NoInstallWorker]
          /\ cExists \in BOOLEAN
          /\ cRunning \in BOOLEAN
          /\ cRunning => cExists
          /\ dockerInstalled \in BOOLEAN
          /\ repoExists \in BOOLEAN
          /\ gitRepo = repoExists
          /\ venvExists = TRUE
       \/ /\ dw = [i \in 1..MaxWorkers |-> NoWorker]
          /\ \E kind \in InstallKinds : \E arg \in InstallArgs(kind) :
               \E pw \in BOOLEAN :
                 /\ (kind = "install" => ~pw)
                 /\ iw = [k \in InstallKinds |->
                            IF k = kind THEN NewInstallWorker(arg, pw)
                            ELSE NoInstallWorker]
                 /\ repoExists \in BOOLEAN
                 /\ gitRepo \in BOOLEAN
                 /\ gitRepo => repoExists
                 /\ venvExists \in BOOLEAN
                 /\ (kind # "install" => repoExists /\ gitRepo /\ venvExists)
          /\ cExists = FALSE
          /\ cRunning = FALSE
          /\ dockerInstalled = TRUE
    /\ uiq = <<>>
    /\ uistack = <<>>
    /\ timers = {}
    /\ docker_worker = 0
    /\ current_docker_action = "none"
    /\ is_initializing = TRUE
    /\ button_operation_state = "idle"
    /\ btn = InitialButtons
    /\ first_start_flag = FALSE
    /\ closed = FALSE
    /\ ops = 0
    /\ req = "none"

\* The DockerWorker thread takes one step of run().
RunDockerWorker ==
    /\ \E x \in DockerWorkerStep(dw[1]) :
         /\ dw' = [dw EXCEPT ![1] = x.w]
         /\ cExists' = x.e
         /\ cRunning' = x.r
         /\ hist' = Recorded(hist, x.cmds, x.texts, x.fin)
    /\ UNCHANGED <<extVars, repoExists, dockerInstalled, venvExists, gitRepo, missing, iw,
                   launcherVars>>

\* The install worker thread of a kind takes one step of run().
RunInstallWorker(kind) ==
    /\ \E x \in InstallStep(kind, iw[kind]) :
         /\ iw' = [iw EXCEPT ![kind] = x.w]
         /\ repoExists' = x.repo
         /\ gitRepo' = IF x.repo = repoExists THEN gitRepo ELSE x.repo
         /\ hist' = Recorded(hist, x.cmds, x.texts, x.fin)
    /\ UNCHANGED <<extVars, cExists, cRunning, dockerInstalled, venvExists, missing, dw,
                   launcherVars>>

\* DockerWorker.terminate: the flag is set and QThread.terminate() asked
\* to end the thread.
Terminate ==
    /\ IsRunning(dw[1])
    /\ ~dw[1].terminated
    /\ dw' = [dw EXCEPT ![1].terminated = TRUE]
    /\ UNCHANGED <<extVars, envVars, iw, hist, launcherVars>>

\* QThread.terminate() takes effect: the thread ends where it is, having
\* emitted nothing more.
TerminateTakesEffect ==
    /\ IsRunning(dw[1])
    /\ dw[1].terminated
    /\ dw' = [dw EXCEPT ![1].pc = "ended"]
    /\ UNCHANGED <<extVars, envVars, iw, hist, launcherVars>>

NextRun ==
    \/ RunDockerWorker
    \/ \E kind \in InstallKinds : RunInstallWorker(kind)
    \/ Terminate
    \/ TerminateTakesEffect

SpecRun == InitRun /\ [][NextRun]_vars

\* The operating system schedules every thread that can run, and an
\* external command that was started returns.
SpecRunFair ==
    /\ SpecRun
    /\ WF_vars(RunDockerWorker)
    /\ \A kind \in InstallKinds : WF_vars(RunInstallWorker(kind))

\* ------------------------------------------------ properties of one run
\* The kind of the worker whose invocation is observed.
Observed ==
    IF dw[1].pc # "free" THEN "docker"
    ELSE CHOOSE k \in InstallKinds : iw[k].pc # "free"

ObservedEnded ==
    IF Observed = "docker" THEN dw[1].pc = "ended"
    ELSE iw[Observed].pc = "ended"

Succeeded == hist.nfin = 1 /\ hist.ok
Failed == hist.nfin = 1 /\ ~hist.ok

\* The commands run so far, and those among them that failed.
Ran == 1..Len(hist.cmds)
IsFailure(x) == x.res \in Failures
RanCommand(c) == \E k \in Ran : hist.cmds[k].c = c

\* C1: every worker invocation emits finished(bool) at most once and no
\* progress event after it, on every path through run().
C1_FinishedAtMostOnce == hist.nfin <= 1 /\ ~hist.late

\* The exception path inside DockerInstallWorker.run that emits
\* finished(False) itself and returns has been taken.
C1_Witness ==
    /\ Failed
    /\ \E k \in Ran : /\ hist.cmds[k].c = "apt-get reinstall docker-ce-cli"
                      /\ IsFailure(hist.cmds[k])

\* C2: every started worker invocation eventually emits a terminal event,
\* unless it is forcibly terminated.
C2_EventuallyFinished == <>(hist.nfin = 1 \/ dw[1].terminated)

\* An invocation has ended with its terminal event after a command failed.
C2_Witness ==
    /\ ObservedEnded
    /\ hist.nfin = 1
    /\ ~dw[1].terminated
    /\ \E k \in Ran : IsFailure(hist.cmds[k])

\* The failures run() survives: the command failed and run() went on to its
\* next step as if it had not.
ToleratedFailure(x) ==
    CASE Observed = "docker" ->
           \/ x.c \in {"ps_a", "ps"}
           \/ /\ x.c \in {"stop", "rm"}
              /\ x.res = "nonzero"
              /\ dw[1].action \in {"rebuild", "start"}
      [] Observed = "install" ->
           \/ x.c \in {"pip --version", "pip show"}
           \/ x.c = "systemctl is-active" /\ x.res = "timeout"
      [] Observed = "system_prereq" -> FALSE
      [] Observed = "docker_install" ->
           \/ x.c = "docker --version"
           \/ /\ x.res = "nonzero"
              /\ x.c \in {"rm -f docker.list", "rm -f docker.asc",
                          "cat docker.list", "groupadd docker",
                          "systemctl is-active",
                          "systemctl start docker (verify)",
                          "docker run hello-world"}
      [] Observed = "memryx_install" ->
           /\ x.res = "nonzero"
           /\ x.c \in {"apt-mark unhold", "apt purge",
                       "rm -f memryx repo and keys", "apt-key list",
                       "apt-key del", "rm -f tmp keys",
                       "apt update (memryx repo)"}

\* The commands MemryXInstallWorker still runs after a failure that ends it:
\* the diagnostic search after memx-drivers could not be installed, and curl
\* of the second GPG method.
FollowUps == {"apt search memx-drivers", "curl memryx.asc"}

\* The failures the rebuild tolerates.
RebuildTolerated(x) ==
    /\ Observed = "docker"
    /\ dw[1].action \in {"rebuild", "start"}
    /\ x.c \in {"stop", "rm"}
    /\ x.res = "nonzero"

Answered(k, q, yes) ==
    /\ Len(hist.cmds) >= k
    /\ hist.cmds[k].c = q
    /\ (hist.cmds[k].res = "yes") = yes

\* No command other than the two queries was run.
OnlyQueried == \A k \in Ran : hist.cmds[k].c \in {"ps_a", "ps"}

\* C8: start when the container exists and is running, and stop when it is
\* absent or already stopped, end Succeeded without a state-changing
\* container command.
C8_ShortCircuit ==
    Observed = "docker" =>
      /\ ( /\ dw[1].action = "start"
           /\ Answered(1, "ps_a", TRUE)
           /\ Answered(2, "ps", TRUE) )
           => OnlyQueried /\ (~dw[1].terminated => Succeeded)
      /\ ( /\ dw[1].action = "stop"
           /\ \/ Answered(1, "ps_a", FALSE)
              \/ Answered(1, "ps_a", TRUE) /\ Answered(2, "ps", FALSE) )
           => OnlyQueried /\ (~dw[1].terminated => Succeeded)

\* A start found the container running and ended Succeeded.
C8_Witness ==
    /\ Observed = "docker"
    /\ dw[1].action = "start"
    /\ Answered(2, "ps", TRUE)
    /\ Succeeded

C10_BuildAfterStopAndRemove ==
    Observed = "docker" =>
      /\ \A k \in Ran :
           hist.cmds[k].c = "build" =>
             LET qs == {j \in 1..(k - 1) : hist.cmds[j].c = "ps_a"}
                 q == CHOOSE j \in qs : \A i \in qs : i <= j
             IN  /\ qs # {}
                 /\ IF Answered(q, "ps_a", TRUE)
                    THEN IF Answered(q + 1, "ps", TRUE)
                         THEN /\ hist.cmds[q + 2].c = "stop"
                              /\ hist.cmds[q + 3].c = "rm"
                              /\ k = q + 4
                         ELSE /\ Answered(q + 1, "ps", FALSE)
                              /\ hist.cmds[q + 2].c = "rm"
                              /\ k = q + 3
                    ELSE k = q + 1
      /\ \A k \in Ran :
           RebuildTolerated(hist.cmds[k]) /\ k = Len(hist.cmds) =>
             \/ dw[1].pc = (IF hist.cmds[k].c = "stop" THEN "rb_rm" ELSE "rb_build")
             \/ dw[1].pc = "ended" /\ dw[1].terminated
             \/ dw[1].pc = "ended" /\ hist.cmds[k].c = "rm" /\ ~repoExists /\ Failed

\* A start whose existence query found no container.
StartWithoutContainer ==
    /\ Observed = "docker"
    /\ dw[1].action = "start"
    /\ Answered(1, "ps_a", FALSE)

\* C27: a start that finds no container runs the rebuild sequence, docker
\* build and then docker run, and ends Succeeded only if both succeeded;
\* without the frigate directory it ends Failed and neither docker build
\* nor docker run is run.
C27_StartWithoutContainerRebuilds ==
    StartWithoutContainer =>
      /\ \A k \in Ran :
           hist.cmds[k].c = "run" =>
             k > 1 /\ hist.cmds[k - 1] = [c |-> "build", res |-> "ok"]
      /\ Succeeded =>
           hist.cmds[Len(hist.cmds)] = [c |-> "run", res |-> "ok"]
      /\ (repoExists /\ ObservedEnded /\ ~dw[1].terminated) =>
           RanCommand("build")
      /\ ~repoExists =>
           /\ ~RanCommand("build") /\ ~RanCommand("run")
           /\ (ObservedEnded /\ ~dw[1].terminated) => Failed

\* A start found no container, built the image, created the container and
\* ended Succeeded.
C27_Witness ==
    /\ StartWithoutContainer
    /\ RanCommand("build") /\ RanCommand("run")
    /\ Succeeded

\* The build was run after both the stop and the remove had failed.
C10_Witness ==
    /\ Observed = "docker"
    /\ dw[1].action = "rebuild"
    /\ Len(hist.cmds) >= 5
    /\ hist.cmds[3] = [c |-> "stop", res |-> "nonzero"]
    /\ hist.cmds[4] = [c |-> "rm", res |-> "nonzero"]
    /\ hist.cmds[5].c = "build"

\* ------------------------------------------- properties of the launcher
\* The DockerWorker threads that are running.
RunningDockerWorkers == {i \in 1..MaxWorkers : IsRunning(dw[i])}

\* C4: a docker_action call made while a DockerWorker is running starts no
\* new DockerWorker, so at most one DockerWorker runs at a time.
C4_AtMostOneDockerWorker == Cardinality(RunningDockerWorkers) <= 1

\* C5: while a Docker operation is running, the Docker Manager Start,
\* Restart, Rebuild and Remove buttons and the PreConfigured Start button
\* stay disabled.
C5_ControlsDisabledWhileRunning ==
    (~closed /\ RunningDockerWorkers # {}) =>
      \A b \in {"docker_start_btn", "docker_restart_btn", "docker_rebuild_btn",
                "docker_remove_btn", "preconfigured_start_btn"} : ~btn[b]

\* C6: while a start, restart, rebuild or remove is running, a stop request
\* is not rejected by the concurrent-operation guard.
C6_StopNotRejected ==
    [][~( /\ \E i \in RunningDockerWorkers : dw[i].action # "stop"
          /\ DockerActionRejected("stop") )]_vars

\* ------------------------------------------------------ the install tabs
\* The handlers of the Prerequisites and Setup tabs that start the install
\* workers, the worker threads, and the handlers of their finished signals.
\* The modal dialogs of these handlers are opened and closed within the
\* handler's step.
Prereqs == {"git", "build-tools", "memryx"}

\* The install operations started in one run.
MaxInstalls == 2

\* check_system_prerequisites, check_docker_prereq_status and
\* check_memryx_prereq_status show an install button while what it
\* installs is missing; the Setup tab's buttons are always shown.
Visible(b) ==
    CASE b = "install_git_btn" -> "git" \in missing
      [] b = "install_build_btn" -> "build-tools" \in missing
      [] b = "install_docker_prereq_btn" -> ~dockerInstalled
      [] b = "install_memryx_prereq_btn" -> "memryx" \in missing
      [] OTHER -> TRUE

Clickable(b) == AcceptsInput /\ btn[b] /\ Visible(b)

IsRunningInstall(w) == w.pc \notin {"ended", "free"}

\* The worker of a kind is created and started.
StartInstallWorker(kind, arg, pw) ==
    /\ ops < MaxInstalls
    /\ ops' = ops + 1
    /\ iw' = [iw EXCEPT ![kind] = NewInstallWorker(arg, pw)]
    /\ req' = "accepted"

\* (variant) install_frigate without its validation of an update.
CannotUpdateUnchecked(action_type) == FALSE

\* install_frigate, "Enhanced validation for repository actions": an update
\* of a missing directory, or of one that is not a git repository.
CannotUpdate(action_type) ==
    action_type = "update_only" /\ (~repoExists \/ ~gitRepo)

\* install_frigate(action_type), connected to the Clone and Update buttons.
InstallFrigate(action_type) ==
    /\ Clickable(IF action_type = "clone_only" THEN "clone_frigate_btn"
                 ELSE "update_frigate_btn")
    /\ IF CannotUpdate(action_type)
       THEN \* QMessageBox.warning(self, "Cannot Update", ...); return
            /\ req' = "aborted"
            /\ UNCHANGED <<iw, btn, ops>>
       ELSE /\ btn' = [btn EXCEPT !["clone_frigate_btn"] = FALSE,
                                  !["update_frigate_btn"] = FALSE]
            /\ StartInstallWorker("install", action_type, FALSE)
    /\ UNCHANGED <<extVars, envVars, hist, dw, uiq, uistack, timers, docker_worker,
                   current_docker_action, is_initializing,
                   button_operation_state, first_start_flag, closed>>

\* install_system_prereq(install_type): password is "none" when the
\* PasswordDialog is cancelled, "empty" or "given" when it is accepted.
InstallSystemPrereq(install_type, password) ==
    /\ Clickable(IF install_type = "git" THEN "install_git_btn"
                 ELSE "install_build_btn")
    /\ IF password = "none"
       THEN /\ req' = "cancelled"
            /\ UNCHANGED <<iw, btn, ops>>
       ELSE /\ btn' = [btn EXCEPT !["install_git_btn"] = FALSE,
                                  !["install_build_btn"] = FALSE]
            /\ StartInstallWorker("system_prereq", install_type,
                                  password = "given")
    /\ UNCHANGED <<extVars, envVars, hist, dw, uiq, uistack, timers, docker_worker,
                   current_docker_action, is_initializing,
                   button_operation_state, first_start_flag, closed>>

\* install_docker_prereq / install_memryx_prereq: the confirmation is
\* answered with reply, then the PasswordDialog as above.
InstallPrereq(kind, button, reply, password) ==
    /\ Clickable(button)
    /\ IF ~reply \/ password = "none"
       THEN /\ req' = "cancelled"
            /\ UNCHANGED <<iw, btn, ops>>
       ELSE /\ btn' = [btn EXCEPT ![button] = FALSE]
            /\ StartInstallWorker(kind, "none", password = "given")
    /\ UNCHANGED <<extVars, envVars, hist, dw, uiq, uistack, timers, docker_worker,
                   current_docker_action, is_initializing,
                   button_operation_state, first_start_flag, closed>>

InstallDockerPrereq(reply, password) ==
    InstallPrereq("docker_install", "install_docker_prereq_btn", reply, password)

InstallMemryxPrereq(reply, password) ==
    InstallPrereq("memryx_install", "install_memryx_prereq_btn", reply, password)

\* What a run() that ended with finished(True) has installed.
Installed(kind, w) ==
    CASE kind = "system_prereq" -> {w.arg}
      [] kind = "memryx_install" -> {"memryx"}
      [] OTHER -> {}

\* The install worker thread of a kind takes one step of run(); its
\* finished signal is queued for the UI thread.
InstallWorkerRun(kind) ==
    /\ ~closed
    /\ Len(uiq) < MaxQueue
    /\ \E x \in InstallStep(kind, iw[kind]) :
         /\ iw' = [iw EXCEPT ![kind] = x.w]
         /\ repoExists' = x.repo
         /\ gitRepo' = IF x.repo = repoExists THEN gitRepo ELSE x.repo
         /\ missing' = IF x.fin = "true" THEN missing \ Installed(kind, x.w)
                       ELSE missing
         /\ dockerInstalled' = (dockerInstalled
                                  \/ (kind = "docker_install" /\ x.fin = "true"))
         /\ uiq' = uiq \o (IF x.fin = "none" THEN <<>>
                           ELSE <<Event("install_finished", 0, kind,
                                        x.fin = "true")>>)
    /\ UNCHANGED <<extVars, cExists, cRunning, venvExists, dw, hist, uistack, timers,
                   docker_worker, current_docker_action, is_initializing,
                   button_operation_state, btn, first_start_flag, closed,
                   ops, req>>

\* The external commands of the status refresh that ends a finished
\* handler, run on the UI thread: check_repo_status and update_step2_guidance
\* (kind "install"), check_docker_prereq_status, check_memryx_prereq_status
\* and check_system_prerequisites. A command ends as the environment has
\* it; git in a valid repository, docker --version and systemctl succeed.
StatusRefreshCmds(kind, ok) ==
    LET dpkg(package, installed) ==
            Cmd("dpkg -l " \o package, IF installed THEN "ok" ELSE "nonzero")
        system == IF "git" \in missing THEN Cmd("git --version", "oserror")
                  ELSE Cmd("git --version", "ok") \o
                       dpkg("build-essential", "build-tools" \notin missing)
        memx == "memryx" \notin missing
    IN  CASE kind = "install" ->
               IF repoExists /\ gitRepo
               THEN Cmd("git status", "ok") \o Cmd("git branch", "ok") \o
                    Cmd("git log", "ok") \o Cmd("git fetch --dry-run", "ok")
                    \o Cmd("git status", "ok")
               ELSE <<>>
          [] kind = "system_prereq" -> IF ok THEN system ELSE <<>>
          [] kind = "docker_install" ->
               (IF dockerInstalled
                THEN Cmd("which docker", "ok") \o Cmd("docker --version", "ok")
                     \o Cmd("systemctl is-active docker", "ok")
                ELSE Cmd("which docker", "nonzero")) \o system
          [] kind = "memryx_install" ->
               dpkg("memx-drivers", memx) \o
               (IF memx THEN Cmd("apt policy memx-drivers", "ok") ELSE <<>>) \o
               dpkg("mxa-manager", memx) \o
               (IF memx THEN Cmd("apt policy mxa-manager", "ok") ELSE <<>>) \o
               dpkg("memx-accl", memx) \o
               (IF memx THEN Cmd("apt policy memx-accl", "ok") ELSE <<>>) \o
               system

\* on_install_finished, on_system_prereq_install_finished,
\* on_docker_prereq_install_finished and on_memryx_prereq_install_finished:
\* the buttons the start handler disabled are enabled again, and the status
\* checks that follow decide the update button.
OnInstallFinished(kind) ==
    /\ Dispatches
    /\ uiq # <<>>
    /\ Head(uiq).t = "install_finished"
    /\ Head(uiq).c = kind
    /\ uiq' = Tail(uiq)
    /\ btn' = CASE kind = "install" ->
                     [btn EXCEPT !["clone_frigate_btn"] = TRUE,
                                 !["update_frigate_btn"] = Step2UpdateEnabled]
                [] kind = "system_prereq" ->
                     [btn EXCEPT !["install_git_btn"] = TRUE,
                                 !["install_build_btn"] = TRUE]
                [] kind = "docker_install" ->
                     [btn EXCEPT !["install_docker_prereq_btn"] = TRUE]
                [] kind = "memryx_install" ->
                     [btn EXCEPT !["install_memryx_prereq_btn"] = TRUE]
    /\ install_progress' =
         IF kind = "install"
         THEN Append(install_progress,
                     IF Head(uiq).ok THEN "Operation completed successfully!"
                     ELSE "Please check the error messages above and try again.")
         ELSE install_progress
    /\ LET cmds == StatusRefreshCmds(kind, Head(uiq).ok)
       IN  uicmds' = IF cmds = <<>> THEN uicmds ELSE cmds
    /\ UNCHANGED <<cfgVars, docVars, camera, wizard, sudo, statusVars,
                   envVars, iw, hist, dw, uistack, timers, docker_worker,
                   current_docker_action, is_initializing,
                   button_operation_state, first_start_flag, closed, ops, req>>

InitInstall ==
    /\ InitExt
    /\ cExists = FALSE
    /\ cRunning = FALSE
    /\ repoExists \in BOOLEAN
    /\ gitRepo \in BOOLEAN
    /\ gitRepo => repoExists
    /\ dockerInstalled \in BOOLEAN
    /\ venvExists \in BOOLEAN
    /\ missing \in SUBSET Prereqs
    /\ iw = [k \in InstallKinds |-> NoInstallWorker]
    /\ hist = NoHistory
    /\ dw = [i \in 1..MaxWorkers |-> NoWorker]
    /\ uiq = <<>>
    /\ uistack = <<>>
    /\ timers = {}
    /\ docker_worker = 0
    /\ current_docker_action = "none"
    /\ is_initializing = FALSE
    /\ button_operation_state = "idle"
    /\ btn = [InitialButtons EXCEPT !["preconfigured_start_btn"] = TRUE,
                                    !["preconfigured_stop_btn"] = TRUE]
    /\ first_start_flag = FALSE
    /\ closed = FALSE
    /\ ops = 0
    /\ req = "none"

Passwords == {"none", "empty", "given"}

\* The file system under the launcher: the frigate directory, or its .git
\* directory, is removed by another program while no InstallWorker works
\* on it.
FrigateDirectoryRemoved ==
    /\ repoExists
    /\ ~IsRunningInstall(iw["install"])
    /\ \E dir \in BOOLEAN :
         /\ dir \/ gitRepo
         /\ repoExists' = ~dir
         /\ gitRepo' = FALSE
    /\ UNCHANGED <<extVars, cExists, cRunning, dockerInstalled, venvExists,
                   missing, dw, iw, uiq, hist, uiVars>>

NextInstall ==
    \/ \E t \in {"clone_only", "update_only"} : InstallFrigate(t)
    \/ \E t \in {"git", "build-tools"} : \E p \in Passwords :
         InstallSystemPrereq(t, p)
    \/ \E reply \in BOOLEAN : \E p \in Passwords : InstallDockerPrereq(reply, p)
    \/ \E reply \in BOOLEAN : \E p \in Passwords : InstallMemryxPrereq(reply, p)
    \/ \E kind \in InstallKinds : InstallWorkerRun(kind)
    \/ \E kind \in InstallKinds : OnInstallFinished(kind)

SpecInstall == InitInstall /\ [][NextInstall]_vars

\* The Clone and Update buttons alone, over a file system that other
\* programs change.
NextRepository ==
    \/ \E t \in {"clone_only", "update_only"} : InstallFrigate(t)
    \/ \E kind \in {"install"} : InstallWorkerRun(kind)
    \/ \E kind \in {"install"} : OnInstallFinished(kind)
    \/ FrigateDirectoryRemoved

SpecRepository == InitInstall /\ [][NextRepository]_vars

\* The install workers that are running.
RunningInstallWorkers == {k \in InstallKinds : IsRunningInstall(iw[k])}

\* C3: at any time at most one operation worker of any kind is running in
\* the whole application.
C3_AtMostOneWorker ==
    Cardinality(RunningInstallWorkers) + Cardinality(RunningDockerWorkers) <= 1


\* ------------------------------------------------------- status polling
\* How a command of a status check can end: as R4, "oserror" being the
\* FileNotFoundError of a missing docker binary, and "error" any other
\* exception of subprocess.run.
StatusResults == R4 \cup {"error"}
StatusOutcomes == IF dockerInstalled THEN StatusResults \ {"oserror"}
                  ELSE {"oserror"}
\* The status a check function lets escape as an exception.
Raised == "raise"

\* A frigate check without its exception handlers: a failing command
\* escapes to run.
FrigateStatusUnguarded(a, r) ==
    IF a \in {"timeout", "oserror", "error"} THEN Raised
    ELSE IF a = "ok" /\ cExists
    THEN IF r \in {"timeout", "oserror", "error"} THEN Raised
         ELSE IF r = "ok" /\ cRunning THEN "Running" ELSE "Stopped"
    ELSE "Not Created"

\* StatusCheckWorker._check_frigate_status: a is how `docker ps -a -q'
\* ended and r how `docker ps -q' ended (run only when the first printed an
\* id); a command prints an id when it exits 0 and the container is there.
FrigateStatus(a, r) ==
    IF a = "timeout" \/ (a \in {"ok", "nonzero"} /\ a = "ok" /\ cExists
                         /\ r = "timeout")
    THEN "Docker Timeout"
    ELSE IF a = "oserror" \/ (a = "ok" /\ cExists /\ r = "oserror")
    THEN "Docker Not Installed"
    ELSE IF a = "error" \/ (a = "ok" /\ cExists /\ r = "error")
    THEN "Unknown Error"
    ELSE IF a = "ok" /\ cExists
    THEN IF r = "ok" /\ cRunning THEN "Running" ELSE "Stopped"
    ELSE "Not Created"

\* StatusCheckWorker._check_docker_status, r being how `docker info' ended.
DockerStatus(r) ==
    CASE r = "ok" -> "Running"
      [] r = "nonzero" -> "Not Available"
      [] r = "timeout" -> "Docker Timeout"
      [] r = "oserror" -> "Not Installed"
      [] r = "error" -> "Not Installed"

\* StatusCheckWorker._check_config_status
ConfigStatus(exists) == IF exists THEN "Found" ELSE "Missing"

\* /dev/memx* device nodes a poll can find.
MaxDevices == 1
\* StatusCheckWorker._check_memryx_status, n device nodes being found.
MemryxStatus(n) == IF n > 0 THEN <<n, "devices found">> ELSE "No Devices"

StatusKeys == {"frigate", "docker", "config", "memryx"}
\* error_status of StatusCheckWorker.run
ErrorStatus == [k \in StatusKeys |-> "Check Failed"]

\* What a poll reads: how its commands end and what the file system holds
\* (r is drawn only when `docker ps -q' is run).
Readings ==
    {rd \in [a : StatusOutcomes, r : StatusOutcomes, docker : StatusOutcomes,
             config : BOOLEAN, memryx : 0..MaxDevices] :
       (rd.a = "ok" /\ cExists) \/ rd.r = rd.a}

\* The body of StatusCheckWorker.run: the snapshot it emits for the
\* readings rd. An exception escaping a check is caught by run's handler,
\* which emits error_status instead.
StatusData(rd) ==
    LET status_data == [frigate |-> FrigateStatus(rd.a, rd.r),
                        docker |-> DockerStatus(rd.docker),
                        config |-> ConfigStatus(rd.config),
                        memryx |-> MemryxStatus(rd.memryx)]
    IN  IF \E k \in StatusKeys : status_data[k] = Raised
        THEN ErrorStatus
        ELSE status_data

NewStatusWorker == [pc |-> "run", emitted |-> 0, deleted |-> FALSE]
\* QThread.isRunning() of a StatusCheckWorker
IsRunningStatus(w) == w.pc \in {"run", "finally", "returning"}

\* One step of the thread of the StatusCheckWorker in slot i: the four
\* checks and status_updated.emit; finished.emit in the finally clause;
\* the return from run, after which the thread is no longer running.
StatusCheckWorkerRun(i) ==
    /\ IsRunningStatus(sw[i])
    /\ CASE sw[i].pc = "run" ->
              /\ Len(uiq) < MaxQueue
              /\ \E rd \in Readings :
                   /\ sw' = [sw EXCEPT ![i].pc = "finally",
                                       ![i].emitted = @ + 1]
                   /\ uiq' = Append(uiq, Event("status_updated", i,
                                               [read |-> rd,
                                                sent |-> StatusData(rd)],
                                               TRUE))
         [] sw[i].pc = "finally" ->
              /\ Len(uiq) < MaxQueue
              /\ sw' = [sw EXCEPT ![i].pc = "returning"]
              /\ uiq' = Append(uiq, Event("status_finished", i, "none", TRUE))
         [] sw[i].pc = "returning" ->
              /\ sw' = [sw EXCEPT ![i].pc = "ended"]
              /\ uiq' = uiq
    /\ UNCHANGED <<cfgVars, docVars, auxVars, envVars, dw, iw, uiVars, hist, status_worker, uicmds>>

\* start_background_status_check, called by check_status: from the
\* status_timer every 5 s and at the end of on_docker_finished,
\* on_install_finished and save_config. A worker object that is no longer
\* referenced is collected when its thread has ended.
CheckStatus ==
    IF status_worker # 0 /\ IsRunningStatus(sw[status_worker])
    THEN /\ req' = "poll skipped"
         /\ UNCHANGED <<status_worker, sw>>
    ELSE LET freed == IF status_worker # 0
                      THEN [sw EXCEPT ![status_worker] = NoStatusWorker]
                      ELSE sw
         IN  /\ \E i \in 1..MaxStatusWorkers : freed[i].pc = "free"
             /\ LET i == CHOOSE k \in 1..MaxStatusWorkers :
                            freed[k].pc = "free"
                IN  /\ sw' = [freed EXCEPT ![i] = NewStatusWorker]
                    /\ status_worker' = i
             /\ req' = "poll started"

\* The status_timer's tick and refresh_status: check_status alone.
StartBackgroundStatusCheck ==
    /\ Dispatches
    /\ CheckStatus
    /\ UNCHANGED <<cfgVars, docVars, auxVars, envVars, dw, iw, uiq, uistack, timers, docker_worker,
                   current_docker_action, is_initializing,
                   button_operation_state, btn, first_start_flag, closed,
                   ops, hist, uicmds>>

\* update_status_from_worker, the slot of status_updated: the labels show
\* the snapshot (their texts are not part of the state) and
\* update_button_states_from_status sets Restart and Remove.
UpdateStatusFromWorker ==
    /\ Dispatches
    /\ uiq # <<>>
    /\ Head(uiq).t = "status_updated"
    /\ uiq' = Tail(uiq)
    /\ LET frigate_text == Head(uiq).c.sent.frigate
           container_running == frigate_text = "Running"
           container_exists == container_running \/ frigate_text = "Stopped"
       IN  btn' = [btn EXCEPT !["docker_restart_btn"] = container_exists,
                              !["docker_remove_btn"] = container_exists]
    /\ UNCHANGED <<cfgVars, docVars, auxVars, envVars, dw, iw, uistack, timers, docker_worker,
                   current_docker_action, is_initializing,
                   button_operation_state, first_start_flag, closed, ops,
                   req, hist, status_worker, sw, uicmds>>

\* on_status_check_finished, the slot of finished: deleteLater() on the
\* worker self.status_worker refers to now, and the reference dropped.
OnStatusCheckFinished ==
    /\ Dispatches
    /\ uiq # <<>>
    /\ Head(uiq).t = "status_finished"
    /\ uiq' = Tail(uiq)
    /\ IF status_worker # 0
       THEN /\ sw' = [sw EXCEPT ![status_worker].deleted = TRUE]
            /\ status_worker' = 0
       ELSE UNCHANGED <<status_worker, sw>>
    /\ UNCHANGED <<cfgVars, docVars, auxVars, envVars, dw, iw, uiVars, hist, uicmds>>

\* The deferred deletion that deleteLater() asked for (deleted marks
\* the object): an object whose thread has ended is destroyed; destroying
\* a QThread whose thread is still running aborts the application.
DeferredDelete(i) ==
    /\ Dispatches
    /\ sw[i].deleted
    /\ IF IsRunningStatus(sw[i])
       THEN /\ closed' = TRUE
            /\ UNCHANGED sw
       ELSE /\ sw' = [sw EXCEPT ![i] = NoStatusWorker]
            /\ UNCHANGED closed
    /\ UNCHANGED <<cfgVars, docVars, auxVars, envVars, dw, iw, uiq, uistack, timers, docker_worker,
                   current_docker_action, is_initializing,
                   button_operation_state, btn, first_start_flag, ops, req,
                   hist, status_worker, uicmds>>

\* The launcher after _initialize_async_components: the first poll is
\* started and status_timer runs.
InitStatus ==
    /\ cExists \in BOOLEAN
    /\ cRunning \in BOOLEAN
    /\ cRunning => cExists
    /\ dockerInstalled \in BOOLEAN
    /\ repoExists = TRUE /\ gitRepo = TRUE /\ venvExists = TRUE
    /\ missing = {}
    /\ iw = [k \in InstallKinds |-> NoInstallWorker]
    /\ hist = NoHistory
    /\ dw = [i \in 1..MaxWorkers |-> NoWorker]
    /\ uiq = <<>> /\ uistack = <<>> /\ timers = {}
    /\ docker_worker = 0
    /\ current_docker_action = "none"
    /\ is_initializing = FALSE
    /\ button_operation_state = "idle"
    /\ btn = [InitialButtons EXCEPT !["preconfigured_start_btn"] = TRUE,
                                    !["preconfigured_stop_btn"] = TRUE]
    /\ first_start_flag = FALSE
    /\ closed = FALSE
    /\ ops = 0
    /\ req = "poll started"
    /\ status_worker = 1
    /\ sw = [i \in 1..MaxStatusWorkers |->
               IF i = 1 THEN NewStatusWorker ELSE NoStatusWorker]
    /\ uicmds = <<>>
    /\ InitConfigOf([exists |-> TRUE, content |-> 1, mtime |-> 1])
    /\ EditorsClosed
    /\ AuxAtRest

NextStatus ==
    \/ StartBackgroundStatusCheck
    \/ \E i \in 1..MaxStatusWorkers : StatusCheckWorkerRun(i)
    \/ UpdateStatusFromWorker
    \/ OnStatusCheckFinished
    \/ \E i \in 1..MaxStatusWorkers : DeferredDelete(i)

SpecStatus == InitStatus /\ [][NextStatus]_vars


\* The StatusCheckWorker threads that exist (started and not yet ended).
RunningStatusWorkers == {i \in 1..MaxStatusWorkers : IsRunningStatus(sw[i])}

\* C11: at every moment at most one status-check worker thread exists,
\* whatever the interleaving of the timer, the explicit refresh requests
\* and the finished notification.
C11_AtMostOneStatusWorker == Cardinality(RunningStatusWorkers) <= 1

\* The snapshots that wait for the UI thread, with the readings they were
\* made from.
Snapshots == {uiq[k].c : k \in {j \in 1..Len(uiq) : uiq[j].t = "status_updated"}}
\* A command of a check ended with an exception.
Excepted == {"timeout", "oserror", "error"}
FrigateFailed(rd) == rd.a \in Excepted \/ (rd.a = "ok" /\ cExists /\ rd.r \in Excepted)
\* The statuses that say a check could not be made.
CheckFailedTexts == {"Docker Timeout", "Docker Not Installed", "Not Installed",
                     "Unknown Error", "Check Failed"}

\* C12: in one status poll the four checks are isolated: a check whose
\* command errors or times out yields a check-failed status for that check
\* only, the other checks report their own results, and the poll emits one
\* snapshot with the four keys frigate, docker, config and memryx.
C12_ChecksIsolated ==
    /\ \A i \in 1..MaxStatusWorkers : sw[i].emitted <= 1
    /\ \A x \in Snapshots :
         /\ DOMAIN x.sent = StatusKeys
         /\ IF FrigateFailed(x.read)
            THEN x.sent.frigate \in CheckFailedTexts
            ELSE x.sent.frigate =
                   (IF x.read.a = "ok" /\ cExists
                    THEN IF x.read.r = "ok" /\ cRunning THEN "Running"
                         ELSE "Stopped"
                    ELSE "Not Created")
         /\ IF x.read.docker \in Excepted
            THEN x.sent.docker \in CheckFailedTexts
            ELSE x.sent.docker = (IF x.read.docker = "ok" THEN "Running"
                                  ELSE "Not Available")
         /\ x.sent.config = (IF x.read.config THEN "Found" ELSE "Missing")
         /\ x.sent.memryx = (IF x.read.memryx = 0 THEN "No Devices"
                             ELSE <<x.read.memryx, "devices found">>)

\* A snapshot of a poll whose frigate check timed out and whose other
\* checks succeeded.
C12_Witness ==
    \E x \in Snapshots :
        /\ x.read.a = "timeout"
        /\ x.read.docker = "ok" /\ x.sent.docker = "Running"
        /\ x.read.config /\ x.sent.config = "Found"
        /\ x.read.memryx = 1
        /\ x.sent.frigate = "Docker Timeout"


\* ------------------------------------------- setup dependencies (UI thread)
\* subprocess.run(..., check=True) of the commands names in turn, rs being
\* how each would end: the commands run, up to the first that fails.
RECURSIVE RunChecked(_, _)
RunChecked(names, rs) ==
    IF names = <<>> THEN <<>>
    ELSE Cmd(Head(names), Head(rs)) \o
         (IF Head(rs) = "ok" THEN RunChecked(Tail(names), Tail(rs)) ELSE <<>>)

\* How a command of python3 ends: it cannot be executed where Python 3 is
\* not installed, and ends as r where it is.
Python3(r) == IF "python" \in missing THEN "oserror" ELSE r

\* What a setup step leaves: the commands it ran, whether it reached a
\* setEnabled(True) block, whether .venv exists and what it installed. A
\* CalledProcessError ("nonzero" under check=True) is handled, and the
\* handler re-enables the buttons; any other exception leaves the step.
SetupChecked(before, names, rs, venv, installs) ==
    LET cmds == RunChecked(names, rs)
        done == cmds = <<>> \/ cmds[Len(cmds)].res = "ok"
    IN  [cmds |-> before \o cmds,
         enabled |-> cmds = <<>> \/ cmds[Len(cmds)].res # "oserror",
         venv |-> venv,
         installed |-> IF done THEN installs ELSE {}]

\* A setup step that returns, or is left by an exception, after cmds and
\* before any setEnabled(True).
SetupLeft(cmds) ==
    [cmds |-> cmds, enabled |-> FALSE, venv |-> venvExists, installed |-> {}]

\* FrigateLauncher._install_python_for_setup
InstallPythonForSetup(rs) ==
    SetupChecked(<<>>, <<"apt update", "apt install python3",
                         "python3 --version">>, rs, venvExists,
                 {"python", "pip"})

\* FrigateLauncher._install_pip_for_setup
InstallPipForSetup(rs) ==
    LET first == Cmd("python3 --version", Python3(rs[1]))
    IN  IF Python3(rs[1]) # "ok"
        THEN SetupLeft(first)
        ELSE SetupChecked(first, <<"apt install python3-pip",
                                   "pip install --upgrade pip",
                                   "pip --version">>, Tail(rs), venvExists,
                          {"pip"})

\* FrigateLauncher._create_virtual_environment, t being how the test of an
\* existing environment (timeout=5) ends.
CreateVirtualEnvironment(rs, t) ==
    LET first == Cmd("python3 -m venv --help", Python3(rs[1]))
        test == IF venvExists THEN Cmd(".venv/bin/python --version", t)
                ELSE <<>>
        names == (IF venvExists THEN <<"rm -rf .venv">> ELSE <<>>)
                 \o <<"python3 -m venv", ".venv/bin/python -m pip install">>
        cmds == RunChecked(names, Tail(rs))
        removed == venvExists /\ cmds[1].res = "ok"
        created == \E k \in 1..Len(cmds) :
                       cmds[k].c = "python3 -m venv" /\ cmds[k].res = "ok"
    IN  IF Python3(rs[1]) # "ok"
        THEN SetupLeft(first)
        ELSE IF venvExists /\ t = "ok"
        THEN [SetupLeft(first \o test) EXCEPT !.enabled = TRUE]
        ELSE SetupChecked(first \o test, names, Tail(rs),
                          created \/ (venvExists /\ ~removed), {})

\* install_setup_dependency(dep_type), the handler of the three setup
\* buttons: it disables them and runs the step on the UI thread.
InstallSetupDependency(dep_type) ==
    /\ AcceptsInput
    /\ btn["install_setup_" \o dep_type \o "_btn"]
    /\ \E rs \in [1..4 -> R3], t \in R4 :
         LET res == CASE dep_type = "python" -> InstallPythonForSetup(rs)
                      [] dep_type = "pip" -> InstallPipForSetup(rs)
                      [] dep_type = "venv" -> CreateVirtualEnvironment(rs, t)
         IN  /\ btn' = [b \in DOMAIN btn |->
                          IF b \in SetupButtons THEN res.enabled ELSE btn[b]]
             /\ uicmds' = res.cmds
             /\ venvExists' = res.venv
             /\ missing' = missing \ res.installed
    /\ req' = dep_type
    /\ UNCHANGED <<cfgVars, docVars, auxVars, cExists, cRunning, repoExists, dockerInstalled, gitRepo,
                   dw, iw, uiq, uistack, timers, docker_worker,
                   current_docker_action, is_initializing,
                   button_operation_state, first_start_flag, closed, ops,
                   hist, statusVars>>

InitSetup ==
    /\ InitExt
    /\ cExists = FALSE /\ cRunning = FALSE /\ dockerInstalled = TRUE
    /\ repoExists = TRUE /\ gitRepo = TRUE
    /\ venvExists \in BOOLEAN
    /\ missing \in SUBSET {"python", "pip"}
    /\ iw = [k \in InstallKinds |-> NoInstallWorker]
    /\ hist = NoHistory
    /\ dw = [i \in 1..MaxWorkers |-> NoWorker]
    /\ uiq = <<>> /\ uistack = <<>> /\ timers = {}
    /\ docker_worker = 0
    /\ current_docker_action = "none"
    /\ is_initializing = FALSE
    /\ button_operation_state = "idle"
    /\ btn = InitialButtons
    /\ first_start_flag = FALSE
    /\ closed = FALSE
    /\ ops = 0
    /\ req = "none"

NextSetup == \E dep_type \in {"python", "pip", "venv"} :
                 InstallSetupDependency(dep_type)

SpecSetup == InitSetup /\ [][NextSetup]_vars

C14_UpdateRejected ==
    [][(InstallFrigate("update_only") /\ (~repoExists \/ ~gitRepo))
       => /\ iw' = iw /\ ops' = ops
          /\ uicmds' = uicmds /\ hist' = hist
          /\ req' = "aborted"
          /\ btn' = btn
          /\ btn'["clone_frigate_btn"] /\ btn'["update_frigate_btn"]]_vars

\* An update was rejected: the repository is invalid, no InstallWorker
\* exists and both buttons are enabled.
C14_Witness ==
    /\ req = "aborted"
    /\ ~repoExists \/ ~gitRepo
    /\ iw["install"].pc = "free"
    /\ btn["clone_frigate_btn"] /\ btn["update_frigate_btn"]


\* C15: every external command is executed by a worker thread; the UI
\* thread never executes or waits on one in any handler.
C15_NoCommandOnUiThread == uicmds = <<>>

\* ------------------------------------------- config.yaml and its editors
\* What the configuration handlers leave alone.
nonConfigVars == <<envVars, dw, iw, uiq, uistack, timers, docker_worker,
                   current_docker_action, is_initializing,
                   button_operation_state, btn, first_start_flag, closed,
                   ops, hist, uicmds, docVars, auxVars>>

\* A write of config.yaml: the file exists with the content, and its
\* mtime is later than every earlier one.
Written(file, content) ==
    [exists |-> TRUE, content |-> content, mtime |-> file.mtime + 1]

\* A writer outside the launcher's own editors' bookkeeping: the external
\* editor that edit_config_manual opens (xdg-open), or the advanced
\* editor, whose save_config writes the file and touches nothing of the
\* launcher.
ExternalWrite ==
    /\ config_yaml.mtime < MaxWrites
    /\ \E c \in Contents : config_yaml' = Written(config_yaml, c)
    /\ UNCHANGED <<config_preview, config_file_mtime,
                   suppress_config_change_popup, prompts, camera_gui, shown,
                   loaded, statusVars, req, nonConfigVars>>

\* config.yaml is deleted outside the launcher.
ExternalDelete ==
    /\ config_yaml.exists
    /\ config_yaml' = [config_yaml EXCEPT !.exists = FALSE]
    /\ UNCHANGED <<config_preview, config_file_mtime,
                   suppress_config_change_popup, prompts, camera_gui, shown,
                   loaded, statusVars, req, nonConfigVars>>

\* check_config_file_changes, the slot of config_watcher_timer (every
\* second, also in the nested event loop of an open dialog), up to the
\* answer of its prompt: QMessageBox.question suspends the call, which
\* keeps current_mtime and file_content.
CheckConfigFileChanges ==
    /\ Dispatches
    /\ ~is_initializing
    /\ IF suppress_config_change_popup
       THEN UNCHANGED <<config_file_mtime, prompts, shown, loaded>>
       ELSE IF config_yaml.exists
       THEN IF config_yaml.mtime > config_file_mtime
            THEN IF config_yaml.content # config_preview
                 THEN /\ Len(prompts) < MaxPrompts
                      /\ prompts' = Append(prompts,
                             [current_mtime |-> config_yaml.mtime,
                              file_content |-> config_yaml.content])
                      /\ shown' = [shown EXCEPT ![config_yaml.mtime] = @ + 1]
                      /\ UNCHANGED <<config_file_mtime, loaded>>
                 ELSE /\ config_file_mtime' = config_yaml.mtime
                      /\ loaded' = config_yaml.mtime
                      /\ UNCHANGED <<prompts, shown>>
            ELSE UNCHANGED <<config_file_mtime, prompts, shown, loaded>>
       ELSE /\ config_file_mtime' =
                  IF config_file_mtime > 0 THEN 0 ELSE config_file_mtime
            /\ UNCHANGED <<prompts, shown, loaded>>
    /\ UNCHANGED <<config_yaml, config_preview,
                   suppress_config_change_popup, camera_gui,
                   statusVars, req, nonConfigVars>>

\* The user answers the topmost "Configuration File Changed" prompt and
\* the suspended call of check_config_file_changes goes on with its
\* current_mtime and file_content.
PromptAnswered(reply) ==
    /\ Dispatches
    /\ prompts # <<>>
    /\ LET call == prompts[Len(prompts)]
       IN  /\ prompts' = SubSeq(prompts, 1, Len(prompts) - 1)
           /\ config_file_mtime' = call.current_mtime
           /\ IF reply = "Yes"
              THEN /\ config_preview' = call.file_content
                   /\ loaded' = call.current_mtime
              ELSE UNCHANGED <<config_preview, loaded>>
    /\ UNCHANGED <<config_yaml, suppress_config_change_popup, camera_gui,
                   shown, statusVars, req, nonConfigVars>>

\* The launcher's window takes input: it is open and no prompt (a dialog
\* modal to it) is open.
LauncherAcceptsInput == Dispatches /\ prompts = <<>>

\* The user types in the launcher's editor.
EditConfigPreview ==
    /\ LauncherAcceptsInput
    /\ \E c \in Contents \cup {DefaultConfig} :
         /\ c # config_preview
         /\ config_preview' = c
    /\ UNCHANGED <<config_yaml, config_file_mtime,
                   suppress_config_change_popup, prompts, camera_gui, shown,
                   loaded, statusVars, req, nonConfigVars>>

\* FrigateLauncher.save_config with a non-empty editor text: the text is
\* written, the mtime of the written file tracked, and check_status run.
SaveConfig ==
    /\ LauncherAcceptsInput
    /\ config_yaml.mtime < MaxWrites
    /\ config_preview \in Contents
    /\ config_yaml' = Written(config_yaml, config_preview)
    /\ config_file_mtime' = config_yaml'.mtime
    /\ loaded' = config_yaml'.mtime
    /\ CheckStatus
    /\ UNCHANGED <<config_preview, suppress_config_change_popup, prompts,
                   camera_gui, shown, nonConfigVars>>

\* open_simple_camera_gui: the camera-only editor opens with
\* launcher_parent set to the launcher.
OpenSimpleCameraGui ==
    /\ LauncherAcceptsInput
    /\ camera_gui = "closed"
    /\ camera_gui' = "open"
    /\ UNCHANGED <<config_yaml, config_preview, config_file_mtime,
                   suppress_config_change_popup, prompts, shown, loaded,
                   statusVars, req, nonConfigVars>>

\* SimpleCameraGUI.save_config up to its "Camera Configuration Updated"
\* dialog: without a config.yaml a warning and nothing else; otherwise
\* the launcher's popup is suppressed and the document is written.
CameraSaveConfig ==
    /\ Dispatches
    /\ camera_gui = "open"
    /\ IF ~config_yaml.exists
       THEN UNCHANGED <<config_yaml, suppress_config_change_popup,
                        camera_gui>>
       ELSE /\ config_yaml.mtime < MaxWrites
            /\ suppress_config_change_popup' = TRUE
            /\ \E c \in Contents : config_yaml' = Written(config_yaml, c)
            /\ camera_gui' = "saved"
    /\ UNCHANGED <<config_preview, config_file_mtime, prompts, shown,
                   loaded, statusVars, req, nonConfigVars>>

\* The dialog is closed and save_config goes on: the launcher's tracked
\* mtime becomes the file's, a 2 s single-shot timer is set to lift the
\* suppression, and the editor closes.
CameraSaveConfigClosed ==
    /\ Dispatches
    /\ camera_gui = "saved"
    /\ config_file_mtime' = IF config_yaml.exists THEN config_yaml.mtime
                            ELSE config_file_mtime
    /\ camera_gui' = "timer"
    /\ UNCHANGED <<config_yaml, config_preview,
                   suppress_config_change_popup, prompts, shown, loaded,
                   statusVars, req, nonConfigVars>>

\* The single-shot timer of SimpleCameraGUI.save_config fires.
CameraSuppressionLifted ==
    /\ Dispatches
    /\ camera_gui = "timer"
    /\ suppress_config_change_popup' = FALSE
    /\ camera_gui' = "closed"
    /\ UNCHANGED <<config_yaml, config_preview, config_file_mtime, prompts,
                   shown, loaded, statusVars, req, nonConfigVars>>

\* The launcher after _initialize_async_components (the watcher timer
\* runs), with or without a config.yaml.
InitConfig ==
    /\ cExists = FALSE /\ cRunning = FALSE
    /\ dockerInstalled = TRUE
    /\ repoExists = TRUE /\ gitRepo = TRUE /\ venvExists = TRUE
    /\ missing = {}
    /\ iw = [k \in InstallKinds |-> NoInstallWorker]
    /\ hist = NoHistory
    /\ dw = [i \in 1..MaxWorkers |-> NoWorker]
    /\ uiq = <<>> /\ uistack = <<>> /\ timers = {}
    /\ docker_worker = 0
    /\ current_docker_action = "none"
    /\ is_initializing = FALSE
    /\ button_operation_state = "idle"
    /\ btn = [InitialButtons EXCEPT !["preconfigured_start_btn"] = TRUE,
                                    !["preconfigured_stop_btn"] = TRUE]
    /\ first_start_flag = FALSE
    /\ closed = FALSE
    /\ ops = 0
    /\ req = "none"
    /\ status_worker = 0
    /\ sw = [i \in 1..MaxStatusWorkers |-> NoStatusWorker]
    /\ uicmds = <<>>
    /\ \E file \in {[exists |-> TRUE, content |-> 1, mtime |-> 1],
                    [exists |-> FALSE, content |-> 1, mtime |-> 0]} :
         InitConfigOf(file)
    /\ EditorsClosed
    /\ AuxAtRest

NextConfig ==
    \/ ExternalWrite
    \/ ExternalDelete
    \/ CheckConfigFileChanges
    \/ \E reply \in {"Yes", "No"} : PromptAnswered(reply)
    \/ EditConfigPreview
    \/ SaveConfig
    \/ OpenSimpleCameraGui
    \/ CameraSaveConfig
    \/ CameraSaveConfigClosed
    \/ CameraSuppressionLifted

SpecConfig == InitConfig /\ [][NextConfig]_vars

\* C16: for each change of config.yaml on disk (each mtime) the
\* "Configuration File Changed" prompt is shown at most once, also when
\* watcher ticks arrive while the prompt is open.
C16_PromptAtMostOncePerChange == \A m \in 1..MaxWrites : shown[m] <= 1

\* The launcher's editor holds stale text: the file on disk is a version
\* later than the one the editor last loaded or wrote, and differs from
\* the editor text.
StaleText ==
    /\ config_yaml.exists
    /\ config_yaml.mtime > loaded
    /\ config_yaml.content # config_preview

\* C17: when the watcher has taken note of a version of config.yaml that
\* was written since the editor last loaded the file and that differs
\* from the editor text, the reload / keep editing prompt has been shown
\* for that version: the editor never holds stale text for a changed
\* file without the prompt.
C17_StaleTextWasPrompted ==
    (StaleText /\ config_file_mtime >= config_yaml.mtime)
        => shown[config_yaml.mtime] >= 1

\* ------------------------------------------------- the two form editors
\* What the form editors leave alone.
nonDocVars == <<envVars, dw, iw, uiq, uiVars, hist, statusVars, uicmds,
                cfgVars, auxVars>>

TopKeys == {"mqtt", "detectors", "model", "ffmpeg", "cameras", "version"}

\* f"memx{i}" and f"PCIe:{i}"
MemxName(i) == "memx" \o ToString(i)
PCIe(i) == "PCIe:" \o ToString(i)
MemxNames == {MemxName(i) : i \in 0..(UndetectedMaximum - 1)}

\* What a writer other than the form editors puts under a top-level key.
ExternalNodes(key) ==
    CASE key = "mqtt" ->
           {("enabled" :> "yes") @@ ("host" :> "localhost") @@
            ("port" :> "1883")}
      [] key = "detectors" -> {"cpu1" :> ("type" :> "cpu")}
      [] OTHER -> {}

\* The camera-only editor when config.yaml is written by another writer:
\* if it is open, the file has changed since it opened.
OthersWrote(tabs) ==
    [tabs EXCEPT !.others_wrote = @ \/ tabs.state = "open"]

\* Another writer (a text editor, the launcher's editor) changes one
\* top-level key of an existing config.yaml.
ExternalEdit ==
    /\ document.exists
    /\ \E key \in TopKeys :
         \E node \in ExternalNodes(key) :
            /\ document' = [document EXCEPT !.nodes =
                   [k \in DOMAIN document.nodes \cup {key} |->
                      IF k = key THEN node ELSE document.nodes[k]]]
            /\ document' # document
    /\ camera_tabs' = OthersWrote(camera_tabs)
    /\ UNCHANGED <<form, nonDocVars>>

\* load_existing_cameras: a tab for each camera of the document, or one
\* default tab.
PlaceholderUrl == "rtsp://username:password@ip:port"
LoadExistingCameras(doc) ==
    LET config == LoadDocument(doc.nodes)
    IN  IF /\ doc.exists
           /\ "cameras" \in DOMAIN config
           /\ DOMAIN config["cameras"] # {}
        THEN [name \in DOMAIN config["cameras"] |->
                config["cameras"][name].v]
        ELSE "camera_1" :> PlaceholderUrl

\* SimpleCameraGUI(): the camera-only editor opens on the cameras of
\* config.yaml.
OpenCameraEditor ==
    /\ camera_tabs.state # "open"
    /\ camera_tabs' = [state |-> "open",
                       cams |-> LoadExistingCameras(document),
                       others_wrote |-> FALSE]
    /\ UNCHANGED <<document, form, nonDocVars>>

\* What the user makes of the camera tabs.
CameraForms == {("camera_1" :> "rtsp://b") @@ ("camera_2" :> "rtsp://a")}

EditCameraTabs ==
    /\ camera_tabs.state = "open"
    /\ \E cams \in CameraForms :
         /\ cams # camera_tabs.cams
         /\ camera_tabs' = [camera_tabs EXCEPT !.cams = cams]
    /\ UNCHANGED <<document, form, nonDocVars>>

\* cameras_config of SimpleCameraGUI.save_config (of a camera its name
\* and the path of its input; the text of a path is not looked into
\* here, SavedUrl has how save_config makes it).
CamerasConfig(cams) == [name \in DOMAIN cams |-> StrValue(cams[name])]

\* The camera-only editor's save writes only the cameras it built.
CameraSavedOnlyCameras(nodes, cameras_config) ==
    DumpDocument("cameras" :> cameras_config)

\* SimpleCameraGUI.save_config on an existing file: the document is
\* loaded, config["cameras"] assigned and the whole document dumped.
CameraSavedDocument(nodes, cameras_config) ==
    LET config == LoadDocument(nodes)
    IN  DumpDocument([k \in DOMAIN config \cup {"cameras"} |->
                        IF k = "cameras" THEN cameras_config
                        ELSE config[k]])

\* SimpleCameraGUI.save_config, as to the document: without a file a
\* warning and no write.
CameraSaveDocument ==
    /\ camera_tabs.state = "open"
    /\ document.exists
    /\ document' = [document EXCEPT !.nodes =
           CameraSavedDocument(document.nodes,
                               CamerasConfig(camera_tabs.cams))]
    /\ camera_tabs' = [camera_tabs EXCEPT !.state = "saved"]
    /\ UNCHANGED <<form, nonDocVars>>

\* The range of the memryx_devices spin box: 1 to the number of devices
\* found, to 8 when none is found.
SpinMaximum(num_devices) ==
    IF num_devices > 0 THEN num_devices ELSE UndetectedMaximum

\* A spin box that takes any value.
SetValueUnchecked(value, num_devices) == value

\* QSpinBox.setValue of memryx_devices: the value is brought into range.
SetValue(value, num_devices) ==
    IF value < 1 THEN 1
    ELSE IF value > SpinMaximum(num_devices) THEN SpinMaximum(num_devices)
    ELSE value

\* The form as ConfigGUI.__init__ builds it.
NewForm(num_devices) ==
    [NoForm EXCEPT !.state = "open",
                   !.num_devices = num_devices,
                   !.memryx_devices =
                       SetValue(IF num_devices > 0 THEN num_devices ELSE 1,
                                num_devices)]

\* "W x H" of the resolution combo box, for a square of the side.
Resolution(side) == side \o " x " \o side
Sides == {"320", "640", "416"}

\* self.model_allowed_res, with the fallback of update_model_defaults.
ModelTypes == {"yolo-generic", "yolonas", "yolox", "ssd"}
ModelAllowedRes(model_name) ==
    CASE model_name \in {"yolo-generic", "yolonas"} ->
           <<Resolution("320"), Resolution("640")>>
      [] model_name = "yolox" -> <<Resolution("640")>>
      [] OTHER -> <<Resolution("320")>>

\* self.model_defaults
ModelDefaults(model_name) ==
    [tensor |-> "nchw",
     dtype |-> IF model_name = "yolox" THEN "float_denorm" ELSE "float",
     path |-> CASE model_name = "yolonas" -> "/config/yolonas_320.zip"
                [] model_name = "yolox" -> "/config/yolox.zip"
                [] model_name = "ssd" -> "/config/ssd.zip"
                [] OTHER -> "/config/yolo.zip"]

\* _parse_resolution: the side of "W x H", 320 for any other text.
ParseResolution(text) ==
    IF \E s \in Sides : text = Resolution(s)
    THEN CHOOSE s \in Sides : text = Resolution(s)
    ELSE "320"

\* _set_resolution_options: the preferred option if it is one, else the
\* first; the custom spin boxes follow.
SetResolutionOptions(f, options, prefer) ==
    LET current == IF \E i \in DOMAIN options : options[i] = prefer
                   THEN prefer ELSE options[1]
    IN  [f EXCEPT !.model_resolution = current,
                  !.custom_width = ParseResolution(current),
                  !.custom_height = ParseResolution(current)]

\* update_model_defaults, the slot of model_type.currentTextChanged.
UpdateModelDefaults(f, model_name) ==
    [SetResolutionOptions(f, ModelAllowedRes(model_name), f.model_resolution)
       EXCEPT !.input_tensor = ModelDefaults(model_name).tensor,
              !.input_dtype = ModelDefaults(model_name).dtype,
              !.custom_path = ModelDefaults(model_name).path]

\* The model type is set (the signal comes only with a change).
SetModelType(f, model_name) ==
    IF model_name = f.model_type
    THEN f
    ELSE UpdateModelDefaults([f EXCEPT !.model_type = model_name],
                             model_name)

\* custom_group.setChecked with toggle_custom_model_mode as the slot of
\* toggled: switched off, the spin boxes follow the resolution.
ToggleCustomModelMode(f, checked) ==
    IF checked = f.custom_group
    THEN f
    ELSE IF checked
    THEN [f EXCEPT !.custom_group = TRUE]
    ELSE [f EXCEPT !.custom_group = FALSE,
                   !.custom_width = ParseResolution(f.model_resolution),
                   !.custom_height = ParseResolution(f.model_resolution)]

\* The items of the tensor and dtype combo boxes.
TensorItems == {"nchw", "nhwc", "hwnc", "hwcn"}
DtypeItems == {"float", "float_denorm", "int"}

\* load_existing_config, the model block.
LoadModel(f, model) ==
    LET has(k) == k \in DOMAIN model
        f1 == IF has("model_type") /\ model["model_type"].v \in ModelTypes
              THEN SetModelType(f, model["model_type"].v)
              ELSE f
        sized == has("width") /\ has("height")
        resolution == model["width"].v \o " x " \o model["height"].v
        options == ModelAllowedRes(f1.model_type)
        f2 == IF has("path")
              THEN [ToggleCustomModelMode(f1, TRUE) EXCEPT
                      !.custom_path = model["path"].v,
                      !.custom_width = IF sized THEN model["width"].v
                                       ELSE @,
                      !.custom_height = IF sized THEN model["height"].v
                                        ELSE @]
              ELSE [ToggleCustomModelMode(f1, FALSE) EXCEPT
                      !.model_resolution =
                          IF sized /\ \E i \in DOMAIN options :
                                         options[i] = resolution
                          THEN resolution ELSE @]
    IN  [f2 EXCEPT
           !.input_tensor = IF has("input_tensor")
                               /\ model["input_tensor"].v \in TensorItems
                            THEN model["input_tensor"].v ELSE @,
           !.input_dtype = IF has("input_dtype")
                              /\ model["input_dtype"].v \in DtypeItems
                           THEN model["input_dtype"].v ELSE @,
           !.labelmap_path = IF has("labelmap_path")
                             THEN model["labelmap_path"].v ELSE @]

\* The keys of a mapping in some order.
RECURSIVE KeysInOrder(_)
KeysInOrder(keys) ==
    IF keys = {} THEN <<>>
    ELSE LET k == CHOOSE x \in keys : TRUE
         IN  <<k>> \o KeysInOrder(keys \ {k})

\* A camera tab as rebuild_camera_tabs builds it for index idx.
NewTab(idx) == [camera_name |-> "camera_" \o ToString(idx),
                camera_url |-> "rtsp://..."]
\* The range of the cams_count spin box.
MaxCameras == 32

\* load_existing_config, the cameras block: a tab for each camera (one
\* at least), each with the name and the path of its camera.
LoadCameras(f, cameras) ==
    LET names == KeysInOrder(DOMAIN cameras)
        count == IF Len(names) < 1 THEN 1
                 ELSE IF Len(names) > MaxCameras THEN MaxCameras
                 ELSE Len(names)
    IN  [f EXCEPT !.tabs =
           [i \in 1..count |->
              IF i <= Len(names)
              THEN [camera_name |-> names[i],
                    camera_url |-> cameras[names[i]].v]
              ELSE IF i <= Len(f.tabs) THEN f.tabs[i] ELSE NewTab(i)]]

\* load_existing_config: the fields that the document sets.
LoadExistingConfig(f, doc) ==
    LET config == LoadDocument(doc.nodes)
        mqtt == config["mqtt"]
        has(field) == field \in DOMAIN mqtt /\ mqtt[field].v # ""
        f1 == IF "mqtt" \in DOMAIN config
              THEN [f EXCEPT
                      !.mqtt_enabled = /\ "enabled" \in DOMAIN mqtt
                                       /\ mqtt["enabled"] = BoolValue(TRUE),
                      !.mqtt_host = IF has("host") THEN mqtt["host"].v
                                    ELSE @,
                      !.mqtt_port = IF has("port") THEN mqtt["port"].v
                                    ELSE @,
                      !.mqtt_topic = IF has("topic_prefix")
                                     THEN mqtt["topic_prefix"].v ELSE @]
              ELSE f
        f2 == IF "ffmpeg" \in DOMAIN config
              THEN [f1 EXCEPT !.ffmpeg_group = TRUE]
              ELSE f1
        f3 == IF "detectors" \in DOMAIN config
              THEN [f2 EXCEPT !.memryx_devices =
                      SetValue(Cardinality(DOMAIN config["detectors"]
                                           \cap MemxNames),
                               f.num_devices)]
              ELSE f2
        f4 == IF "model" \in DOMAIN config
              THEN LoadModel(f3, config["model"])
              ELSE f3
    IN  IF ~doc.exists \/ DOMAIN doc.nodes = {}
        THEN f
        ELSE IF "cameras" \in DOMAIN config
        THEN LoadCameras(f4, config["cameras"])
        ELSE f4

\* ConfigGUI(): the advanced editor opens; the glob finds some number of
\* device nodes.
OpenConfigGUI ==
    /\ form.state # "open"
    /\ \E num_devices \in 0..MaxDetected :
         form' = LoadExistingConfig(NewForm(num_devices), document)
    /\ UNCHANGED <<document, camera_tabs, nonDocVars>>

\* What the user makes of the MQTT fields and the FFmpeg group: the check
\* box, host, port, topic prefix, and the group's check box.
FormInputs ==
    {<<FALSE, "localhost", "1883", "frigate", FALSE>>,
     <<FALSE, "localhost", "abc", "", TRUE>>,
     <<TRUE, "localhost", "1883", "frigate", FALSE>>,
     <<TRUE, "localhost", "", "", TRUE>>,
     <<TRUE, "", "abc", "frigate", FALSE>>}

\* The user changes the MQTT fields and the FFmpeg group (text stays in
\* a field that toggle_mqtt_fields disables), or the spin box.
EditForm ==
    /\ form.state = "open"
    /\ \/ \E in \in FormInputs :
            form' = [form EXCEPT !.mqtt_enabled = in[1], !.mqtt_host = in[2],
                                 !.mqtt_port = in[3], !.mqtt_topic = in[4],
                                 !.ffmpeg_group = in[5]]
       \/ \E n \in 1..SpinMaximum(form.num_devices) :
            form' = [form EXCEPT !.memryx_devices = n]
    /\ form' # form
    /\ UNCHANGED <<document, camera_tabs, nonDocVars>>

\* An mqtt block with the fields whatever the check box.
MqttConfigAllFields(f) ==
    [k \in {"enabled", "host"} |->
       IF k = "enabled" THEN BoolValue(f.mqtt_enabled)
       ELSE StrValue(f.mqtt_host)]

\* mqtt_config of ConfigGUI.save_config.
MqttConfig(f) ==
    IF f.mqtt_enabled
    THEN [k \in {"enabled", "host"}
               \cup (IF f.mqtt_port # "" THEN {"port"} ELSE {})
               \cup (IF f.mqtt_topic # "" THEN {"topic_prefix"} ELSE {})
          |-> CASE k = "enabled" -> BoolValue(TRUE)
                [] k = "host" -> StrValue(f.mqtt_host)
                [] k = "port" -> IntValue(f.mqtt_port)
                [] k = "topic_prefix" -> StrValue(f.mqtt_topic)]
    ELSE "enabled" :> BoolValue(FALSE)

\* int(self.mqtt_port.text()) raises ValueError.
PortRaises(f) ==
    f.mqtt_enabled /\ f.mqtt_port # "" /\ f.mqtt_port \notin IntTexts

\* detectors_config of ConfigGUI.save_config.
DetectorsConfig(n) ==
    [name \in {MemxName(i) : i \in 0..(n - 1)} |->
       LET i == CHOOSE j \in 0..(n - 1) : MemxName(j) = name
       IN  [type |-> StrValue("memryx"), device |-> StrValue(PCIe(i))]]

\* model_config of ConfigGUI.save_config: the custom size and path in
\* custom mode, the selected resolution and no path otherwise; a path
\* that is the empty text is left out.
ModelConfig(f) ==
    LET w == IF f.custom_group THEN f.custom_width
             ELSE ParseResolution(f.model_resolution)
        h == IF f.custom_group THEN f.custom_height
             ELSE ParseResolution(f.model_resolution)
        model_path == IF f.custom_group THEN f.custom_path ELSE ""
    IN  [k \in {"model_type", "width", "height", "input_tensor",
                "input_dtype", "labelmap_path"}
               \cup (IF model_path # "" THEN {"path"} ELSE {})
         |-> CASE k = "model_type" -> StrValue(f.model_type)
               [] k = "width" -> IntValue(w)
               [] k = "height" -> IntValue(h)
               [] k = "input_tensor" -> StrValue(f.input_tensor)
               [] k = "input_dtype" -> StrValue(f.input_dtype)
               [] k = "labelmap_path" -> StrValue(f.labelmap_path)
               [] k = "path" -> StrValue(model_path)]

\* cameras_config of ConfigGUI.save_config (of a camera its name and
\* path): the tabs are assigned in order under their names.
TabsConfig(tabs) ==
    [name \in {tabs[i].camera_name : i \in DOMAIN tabs} |->
       LET last == CHOOSE i \in DOMAIN tabs :
                      /\ tabs[i].camera_name = name
                      /\ \A j \in DOMAIN tabs :
                            tabs[j].camera_name = name => j <= i
       IN  StrValue(tabs[last].camera_url)]

\* config of ConfigGUI.save_config.
SavedConfig(f) ==
    [k \in {"mqtt", "detectors", "model", "cameras", "version"}
           \cup (IF f.ffmpeg_group THEN {"ffmpeg"} ELSE {})
     |-> CASE k = "mqtt" -> MqttConfig(f)
           [] k = "detectors" -> DetectorsConfig(f.memryx_devices)
           [] k = "model" -> ModelConfig(f)
           [] k = "ffmpeg" -> "hwaccel_args" :> StrValue("preset-vaapi")
           [] k = "cameras" -> TabsConfig(f.tabs)
           [] k = "version" -> StrValue("0.17-0")]

\* ConfigGUI.save_config: the document is built from the form and
\* written over config.yaml; a port that is no number ends the handler
\* before anything is written.
ConfigGUISaveConfig ==
    /\ form.state = "open"
    /\ ~PortRaises(form)
    /\ document' = [exists |-> TRUE,
                    nodes |-> DumpDocument(SavedConfig(form))]
    /\ form' = [form EXCEPT !.state = "saved"]
    /\ camera_tabs' = OthersWrote(camera_tabs)
    /\ UNCHANGED nonDocVars

\* The launcher with nothing under way: no worker, no queued event, no
\* dialog, the buttons enabled.
LauncherIdle ==
    /\ cExists = FALSE /\ cRunning = FALSE
    /\ dockerInstalled = TRUE
    /\ repoExists = TRUE /\ gitRepo = TRUE /\ venvExists = TRUE
    /\ missing = {}
    /\ iw = [k \in InstallKinds |-> NoInstallWorker]
    /\ hist = NoHistory
    /\ dw = [i \in 1..MaxWorkers |-> NoWorker]
    /\ uiq = <<>> /\ uistack = <<>> /\ timers = {}
    /\ docker_worker = 0
    /\ current_docker_action = "none"
    /\ is_initializing = FALSE
    /\ button_operation_state = "idle"
    /\ btn = [InitialButtons EXCEPT !["preconfigured_start_btn"] = TRUE,
                                    !["preconfigured_stop_btn"] = TRUE]
    /\ first_start_flag = FALSE
    /\ closed = FALSE
    /\ ops = 0
    /\ req = "none"
    /\ status_worker = 0
    /\ sw = [i \in 1..MaxStatusWorkers |-> NoStatusWorker]
    /\ uicmds = <<>>
    /\ InitConfigOf([exists |-> TRUE, content |-> 1, mtime |-> 1])

\* Both editors closed; config.yaml saved before, empty or missing.
InitEditors ==
    /\ LauncherIdle
    /\ document \in {InitialDocument,
                     [exists |-> TRUE, nodes |-> <<>>],
                     [exists |-> FALSE, nodes |-> <<>>]}
    /\ camera_tabs = NoCameraTabs
    /\ form = NoForm
    /\ AuxAtRest

NextEditors ==
    \/ ExternalEdit
    \/ OpenCameraEditor
    \/ EditCameraTabs
    \/ CameraSaveDocument
    \/ OpenConfigGUI
    \/ EditForm
    \/ ConfigGUISaveConfig

SpecEditors == InitEditors /\ [][NextEditors]_vars

\* The step is a save of the camera-only editor.
CameraSaved == camera_tabs.state = "open" /\ camera_tabs'.state = "saved"

\* C18: a save from the camera-only editor changes only the top-level
\* cameras key: every other top-level key of the document on disk at the
\* moment of saving is written back with the same value, and no other
\* key is added.
C18_OnlyCamerasChanged ==
    [][CameraSaved =>
         \A key \in TopKeys \ {"cameras"} :
            /\ (key \in DOMAIN document'.nodes) =
                   (key \in DOMAIN document.nodes)
            /\ key \in DOMAIN document.nodes =>
                   LoadNode(key, document'.nodes[key]) =
                       LoadNode(key, document.nodes[key])]_vars

\* A save after another writer changed the file while the editor was
\* open: the mqtt block that the other writer put in (enabled: yes) is
\* written back with its value (enabled: true), next to the new cameras.
C18_Witness ==
    /\ camera_tabs.state = "saved"
    /\ camera_tabs.others_wrote
    /\ "mqtt" \in DOMAIN document.nodes
    /\ document.nodes["mqtt"] =
           ("enabled" :> "true") @@ ("host" :> "localhost") @@
           ("port" :> "1883")
    /\ "camera_2" \in DOMAIN document.nodes["cameras"]

\* The step is a save of the advanced editor.
AdvancedSaved == form.state = "open" /\ form'.state = "saved"

\* C19: when MQTT is disabled at save time, the mqtt block of the saved
\* document is exactly enabled: false; host, port and topic_prefix are
\* absent whatever the form fields hold.
C19_MqttDisabledBlock ==
    [][(AdvancedSaved /\ ~form.mqtt_enabled) =>
         /\ "mqtt" \in DOMAIN document'.nodes
         /\ DOMAIN document'.nodes["mqtt"] = {"enabled"}
         /\ LoadScalar(document'.nodes["mqtt"]["enabled"]) =
                BoolValue(FALSE)]_vars

\* A save with MQTT disabled and text in the host field.
C19_Witness ==
    /\ form.state = "saved"
    /\ ~form.mqtt_enabled
    /\ form.mqtt_host # "" /\ form.mqtt_port # "" /\ form.mqtt_topic # ""
    /\ document.exists
    /\ "mqtt" \in DOMAIN document.nodes
    /\ DOMAIN document.nodes["mqtt"] = {"enabled"}

\* The detectors node consists of memx0..memx(n-1) with type memryx and
\* device PCIe:i.
DetectorsAre(detectors, n) ==
    /\ DOMAIN detectors = {MemxName(i) : i \in 0..(n - 1)}
    /\ \A i \in 0..(n - 1) :
         /\ DOMAIN detectors[MemxName(i)] = {"type", "device"}
         /\ detectors[MemxName(i)]["type"] = "memryx"
         /\ detectors[MemxName(i)]["device"] = PCIe(i)

----------------------------------------------------------------------------
\* The model group of the advanced editor.

\* What the user types into the custom path field.
CustomPaths == {"", "/config/custom.zip"}
\* What the user sets the custom width and height to.
CustomSides == {"320", "416"}

\* The user selects a model type, or a resolution of the combo box
\* (enabled while the custom group is unchecked); the tensor layout and
\* the dtype stay as the model type sets them.
EditModelType ==
    /\ form.state = "open"
    /\ \/ \E model_name \in ModelTypes :
            form' = SetModelType(form, model_name)
       \/ /\ ~form.custom_group
          /\ \E i \in DOMAIN ModelAllowedRes(form.model_type) :
               form' = [form EXCEPT !.model_resolution =
                                       ModelAllowedRes(form.model_type)[i]]
    /\ form' # form
    /\ UNCHANGED <<document, camera_tabs, nonDocVars>>

\* The user checks or unchecks the custom group, or, while it is
\* checked, changes the path, the width or the height.
EditCustomModel ==
    /\ form.state = "open"
    /\ \/ form' = ToggleCustomModelMode(form, ~form.custom_group)
       \/ /\ form.custom_group
          /\ \/ \E path \in CustomPaths :
                  form' = [form EXCEPT !.custom_path = path]
             \/ \E w \in CustomSides :
                  form' = [form EXCEPT !.custom_width = w]
             \/ \E h \in CustomSides :
                  form' = [form EXCEPT !.custom_height = h]
    /\ form' # form
    /\ UNCHANGED <<document, camera_tabs, nonDocVars>>

NextModel ==
    \/ OpenConfigGUI
    \/ EditModelType
    \/ EditCustomModel
    \/ ConfigGUISaveConfig

SpecModel == InitEditors /\ [][NextModel]_vars

\* The model block of a document.
ModelOf(doc) == LoadDocument(doc.nodes)["model"]

\* C21: in every document saved by the advanced editor, a model block
\* without a path key has a width and height that are one of the allowed
\* resolutions of its model_type; and with the custom group checked the
\* model block has the path key and the width and height of the custom
\* spin boxes.
C21_ModelBlock ==
    [][AdvancedSaved =>
         LET model == ModelOf(document')
             options == ModelAllowedRes(model["model_type"].v)
         IN  /\ "path" \notin DOMAIN model =>
                  \E i \in DOMAIN options :
                     options[i] = model["width"].v \o " x "
                                     \o model["height"].v
             /\ form.custom_group =>
                  /\ "path" \in DOMAIN model
                  /\ model["width"] = IntValue(form.custom_width)
                  /\ model["height"] = IntValue(form.custom_height)]_vars

----------------------------------------------------------------------------
\* The detector spin box and the camera tabs of the advanced editor, and
\* a document that goes through the editor twice.

MaxTabs == 2
\* What the user types into a camera name field.
CameraNames == {"", "camera_1", "front"}

\* The user changes the detector spin box.
EditDevices ==
    /\ form.state = "open"
    /\ \E n \in 1..SpinMaximum(form.num_devices) :
         form' = [form EXCEPT !.memryx_devices = n]
    /\ form' # form
    /\ UNCHANGED <<document, camera_tabs, nonDocVars>>

\* rebuild_camera_tabs: the tabs there are keep their fields; a new tab
\* is named after the camera at its index in config.yaml, if there is
\* one.
RebuildCameraTabs(tabs, count, doc) ==
    LET config == LoadDocument(doc.nodes)
        camera_names == IF doc.exists /\ "cameras" \in DOMAIN config
                        THEN KeysInOrder(DOMAIN config["cameras"])
                        ELSE <<>>
    IN  [i \in 1..count |->
           IF i <= Len(tabs) THEN tabs[i]
           ELSE IF i <= Len(camera_names)
           THEN [NewTab(i) EXCEPT !.camera_name = camera_names[i]]
           ELSE NewTab(i)]

\* The user changes the number of cameras (cams_count.valueChanged is
\* connected to rebuild_camera_tabs) or types a camera name.
EditCameras ==
    /\ form.state = "open"
    /\ \/ \E count \in 1..MaxTabs :
            form' = [form EXCEPT !.tabs =
                                    RebuildCameraTabs(@, count, document)]
       \/ \E i \in DOMAIN form.tabs, name \in CameraNames :
            form' = [form EXCEPT !.tabs[i].camera_name = name]
    /\ form' # form
    /\ UNCHANGED <<document, camera_tabs, nonDocVars>>

NextRoundTrip ==
    \/ OpenConfigGUI
    \/ EditDevices
    \/ EditCameras
    \/ ConfigGUISaveConfig

SpecRoundTrip == InitEditors /\ [][NextRoundTrip]_vars

\* config.yaml is a document that the advanced editor saved (the
\* documents at the start have no model block, and no other writer
\* takes a step in SpecRoundTrip).
SavedByAdvancedEditor ==
    document.exists /\ "model" \in DOMAIN LoadDocument(document.nodes)

\* The form shows what a new editor loads from config.yaml.
FormAsLoaded ==
    /\ form.state = "open"
    /\ form = LoadExistingConfig(NewForm(form.num_devices), document)

\* C22: a document saved by the advanced editor, loaded into a new
\* advanced editor and saved again without an edit has the same camera
\* names, the same number of detectors and the same model block,
\* whatever the number of accelerator devices found when it is loaded.
C22_RoundTrip ==
    [][AdvancedSaved /\ SavedByAdvancedEditor /\ FormAsLoaded =>
         LET before == LoadDocument(document.nodes)
             after == LoadDocument(document'.nodes)
         IN  /\ DOMAIN after["cameras"] = DOMAIN before["cameras"]
             /\ Cardinality(DOMAIN after["detectors"])
                  = Cardinality(DOMAIN before["detectors"])
             /\ after["model"] = before["model"]]_vars

\* C24: at a save of the advanced editor the camera names are non-empty
\* and pairwise distinct, and the cameras mapping of the saved document
\* has one entry for each camera tab.
C24_OneEntryPerTab ==
    [][AdvancedSaved =>
         /\ \A i \in DOMAIN form.tabs : form.tabs[i].camera_name # ""
         /\ \A i, j \in DOMAIN form.tabs :
               form.tabs[i].camera_name = form.tabs[j].camera_name
                  => i = j
         /\ Cardinality(DOMAIN LoadDocument(document'.nodes)["cameras"])
              = Len(form.tabs)]_vars

----------------------------------------------------------------------------
\* Stream URLs: a camera tab of the camera-only editor field by field,
\* and the PreConfigured setup. A text is the sequence of its characters;
\* a run of characters that holds none of @ : / , stands as one element.

nonAuxVars == <<envVars, dw, iw, uiq, uiVars, hist, statusVars, uicmds,
                cfgVars, docVars>>

\* What a user types as username, password and IP address.
Credentials ==
    {<<<<"u">>, <<"p">>, <<"h">>>>,
     <<<<"u", "@", "x">>, <<"p">>, <<"h">>>>,
     <<<<"u">>, <<"p", ":", "q">>, <<"h">>>>,
     <<<<"u">>, <<"p", "/">>, <<"h">>>>,
     <<<<"u">>, <<>>, <<"h">>>>,
     <<<<>>, <<>>, <<>>>>}

Scheme == "rtsp://"
DahuaPath == <<"/", "cam", "/", "realmonitor?channel=1&subtype=0">>

\* f"rtsp://{username}:{password}@{ip}:554/cam/realmonitor?..."
AutoUrl(username, password, ip) ==
    <<Scheme>> \o username \o <<":">> \o password \o <<"@">> \o ip
       \o <<":", "554">> \o DahuaPath

\* The placeholder that save_config writes without credentials.
PlaceholderPath ==
    <<Scheme, "username", ":", "password", "@", "ip", ":", "port">>
       \o DahuaPath

\* The index of the first c in the text, 0 if there is none.
Find(text, c) ==
    IF \E i \in DOMAIN text : text[i] = c
    THEN CHOOSE i \in DOMAIN text :
            /\ text[i] = c
            /\ \A j \in 1..(i - 1) : text[j] # c
    ELSE 0

\* How often c is in the text.
Count(text, c) == Cardinality({i \in DOMAIN text : text[i] = c})

\* rebuild_camera_tabs_with_existing_data: username, password and IP
\* address out of the URL of a camera.
ParseRtspUrl(camera_url) ==
    LET none == [username |-> <<>>, password |-> <<>>,
                 ip_address |-> <<>>]
    IN  IF camera_url = <<>> \/ Head(camera_url) # Scheme
        THEN none
        ELSE LET url_part == Tail(camera_url)
                 at == Find(url_part, "@")
                 auth_part == SubSeq(url_part, 1, at - 1)
                 rest == SubSeq(url_part, at + 1, Len(url_part))
                 colon == Find(auth_part, ":")
                 stop == IF Find(rest, ":") > 0 THEN Find(rest, ":")
                         ELSE IF Find(rest, "/") > 0 THEN Find(rest, "/")
                         ELSE Len(rest) + 1
             IN  IF at = 0
                 THEN none
                 ELSE [username |-> IF colon > 0
                                    THEN SubSeq(auth_part, 1, colon - 1)
                                    ELSE <<>>,
                       password |-> IF colon > 0
                                    THEN SubSeq(auth_part, colon + 1,
                                                Len(auth_part))
                                    ELSE <<>>,
                       ip_address |-> SubSeq(rest, 1, stop - 1)]

\* ",".join(objects_list)
RECURSIVE Join(_)
Join(list) ==
    IF list = <<>> THEN <<>>
    ELSE IF Len(list) = 1 THEN list
    ELSE <<Head(list), ",">> \o Join(Tail(list))

\* [obj.strip() for obj in text.split(',') if obj.strip()]
Split(text) == SelectSeq(text, LAMBDA x : x # ",")

\* dict.get(key, default)
Get(dict, key, default) ==
    IF key \in DOMAIN dict THEN dict[key] ELSE default

\* The tab that rebuild_camera_tabs_with_existing_data builds for a
\* camera of config.yaml.
TabFromExisting(camera_name, camera_config) ==
    LET camera_url == camera_config.path
        parsed == ParseRtspUrl(camera_url)
        objects_list == camera_config.objects
        record_config == camera_config.record
    IN  [state |-> "open",
         camera_name |-> camera_name,
         username |-> parsed.username,
         password |-> parsed.password,
         ip_address |-> parsed.ip_address,
         camera_url |-> camera_url,
         url_enabled |-> FALSE,
         objects |-> IF objects_list # <<>> THEN Join(objects_list)
                     ELSE <<"person", ",", "car", ",", "dog">>,
         record_enabled |-> Get(record_config, "enabled", FALSE),
         record_alerts |-> Get(record_config, "alerts", 7),
         record_detections |-> Get(record_config, "detections", 3)]

\* The tab that rebuild_camera_tabs builds when there is no camera.
DefaultTab ==
    [state |-> "open", camera_name |-> "camera_1", username |-> <<>>,
     password |-> <<>>, ip_address |-> <<>>, camera_url |-> <<>>,
     url_enabled |-> FALSE,
     objects |-> <<"person", ",", "car", ",", "dog">>,
     record_enabled |-> FALSE, record_alerts |-> 7,
     record_detections |-> 3]

\* SimpleCameraGUI(), load_existing_cameras: a tab for the camera of
\* config.yaml, the default tab when it has none.
OpenCamera ==
    /\ camera.tab.state # "open"
    /\ camera' = [camera EXCEPT !.tab =
           IF camera.existing # NoCamera
           THEN TabFromExisting(camera.existing.name,
                                camera.existing.config)
           ELSE DefaultTab]
    /\ UNCHANGED <<wizard, sudo, install_progress, nonAuxVars>>

\* update_rtsp_url, the slot of textChanged of the three fields: while
\* the URL field is disabled it shows the generated URL, or nothing.
UpdateRtspUrl(tab) ==
    IF tab.url_enabled
    THEN tab
    ELSE [tab EXCEPT !.camera_url =
            IF tab.username # <<>> /\ tab.password # <<>>
               /\ tab.ip_address # <<>>
            THEN AutoUrl(tab.username, tab.password, tab.ip_address)
            ELSE <<>>]

\* What a user types into an enabled URL field.
ManualUrls == {<<Scheme, "h", ":", "554", "/", "stream1">>}

\* The user types username, password and IP address (update_rtsp_url
\* runs at each change and leaves what it makes of the final texts),
\* presses "Enable Manual URL" / "Auto Generate URL", types a URL into
\* the enabled field, or checks "Enable Recording".
EditCameraFields ==
    /\ camera.tab.state = "open"
    /\ \/ \E in \in Credentials :
            camera' = [camera EXCEPT !.tab =
                         UpdateRtspUrl([@ EXCEPT !.username = in[1],
                                                 !.password = in[2],
                                                 !.ip_address = in[3]])]
       \/ camera' = [camera EXCEPT !.tab.url_enabled = ~@]
       \/ /\ camera.tab.url_enabled
          /\ \E text \in ManualUrls :
               camera' = [camera EXCEPT !.tab.camera_url = text]
       \/ camera' = [camera EXCEPT !.tab.record_enabled = ~@]
    /\ camera' # camera
    /\ UNCHANGED <<wizard, sudo, install_progress, nonAuxVars>>

\* The tab's URL field is not what save_config writes: the URL is made
\* from the username, password and IP address.
UrlIsGenerated(tab) == tab.camera_url = <<>> \/ ~tab.url_enabled

\* camera_url of save_config
SavedUrl(tab) ==
    IF UrlIsGenerated(tab)
    THEN IF tab.username # <<>> /\ tab.password # <<>>
            /\ tab.ip_address # <<>>
         THEN AutoUrl(tab.username, tab.password, tab.ip_address)
         ELSE PlaceholderPath
    ELSE tab.camera_url

\* cam_config of save_config
CamConfig(tab) ==
    [path |-> SavedUrl(tab),
     roles |-> IF tab.record_enabled THEN <<"detect", "record">>
               ELSE <<"detect">>,
     detect |-> [width |-> 1920, height |-> 1080, fps |-> 20,
                 enabled |-> TRUE],
     objects |-> Split(tab.objects),
     snapshots |-> [enabled |-> FALSE, bounding_box |-> TRUE,
                    retain |-> 1],
     record |-> IF tab.record_enabled
                THEN [enabled |-> TRUE, alerts |-> tab.record_alerts,
                      detections |-> tab.record_detections]
                ELSE <<>>]

\* SimpleCameraGUI.save_config, as to the camera: config["cameras"] is
\* the camera built from the tab, under the name of the tab.
SaveCamera ==
    /\ camera.tab.state = "open"
    /\ camera' = [existing |-> [name |-> camera.tab.camera_name,
                                config |-> CamConfig(camera.tab)],
                  tab |-> [camera.tab EXCEPT !.state = "saved"]]
    /\ UNCHANGED <<wizard, sudo, install_progress, nonAuxVars>>

\* The cameras that the PreConfigured setup collects (get_camera_data).
WizardCameras ==
    {[name |-> "cam 1", username |-> in[1], password |-> in[2],
      ip_address |-> in[3], port |-> <<"554">>,
      stream_path |-> <<"/", "stream1">>] : in \in Credentials}

\* rtsp_url of generate_frigate_config
RtspUrl(cam) ==
    IF cam.username # <<>> /\ cam.password # <<>>
    THEN <<Scheme>> \o cam.username \o <<":">> \o cam.password \o <<"@">>
            \o cam.ip_address \o <<":">> \o cam.port \o cam.stream_path
    ELSE <<Scheme>> \o cam.ip_address \o <<":">> \o cam.port
            \o cam.stream_path

\* generate_frigate_config for one camera of the setup.
GenerateFrigateConfig ==
    /\ \E cam \in WizardCameras :
         wizard' = [cameras |-> <<cam>>, rtsp_url |-> RtspUrl(cam)]
    /\ wizard' # wizard
    /\ UNCHANGED <<camera, sudo, install_progress, nonAuxVars>>

\* The cameras that config.yaml may hold when the editor opens: written
\* by this editor, by the advanced editor or by hand.
ExistingCameras ==
    {[name |-> "cam1",
      config |-> [path |-> path, roles |-> roles, detect |-> detect,
                  objects |-> <<"person">>,
                  snapshots |-> [enabled |-> FALSE, bounding_box |-> TRUE,
                                 retain |-> 1],
                  record |-> record]] :
       path \in {AutoUrl(<<"u">>, <<"p">>, <<"h">>),
                 <<Scheme, "h", ":", "554", "/", "stream1">>},
       roles \in {<<"detect">>, <<"detect", "record">>},
       detect \in {[width |-> 1920, height |-> 1080, fps |-> 20,
                    enabled |-> TRUE],
                   [width |-> 1280, height |-> 720, fps |-> 5,
                    enabled |-> TRUE]},
       record \in {<<>>,
                   [enabled |-> TRUE, alerts |-> 7, detections |-> 3],
                   [enabled |-> FALSE, alerts |-> 1, detections |-> 1]}}

InitCamera ==
    /\ LauncherIdle
    /\ EditorsClosed
    /\ camera \in [existing : ExistingCameras \cup {NoCamera},
                   tab : {NoTab}]
    /\ wizard = NoWizard
    /\ sudo = NoSudo
    /\ install_progress = <<>>

NextCamera ==
    \/ OpenCamera
    \/ EditCameraFields
    \/ SaveCamera
    \/ GenerateFrigateConfig

SpecCamera == InitCamera /\ [][NextCamera]_vars

\* In the URL the credentials are one part with a single ':' and no
\* '/', and a single '@' follows them.
CredentialsEscaped(url) ==
    LET url_part == Tail(url)
        credentials == SubSeq(url_part, 1, Find(url_part, "@") - 1)
    IN  /\ Count(url_part, "@") = 1
        /\ Count(credentials, ":") = 1
        /\ Count(credentials, "/") = 0

\* C23: a stream URL made from a username and a password, by the save
\* of the camera-only editor or by generate_frigate_config, has every
\* @, : and / of the username and of the password percent-encoded: its
\* credentials part has exactly one ':' and is followed by exactly one
\* '@'.
C23_CredentialsEncoded ==
    /\ (/\ camera.tab.state = "saved"
        /\ UrlIsGenerated(camera.tab)
        /\ camera.existing.config.path # PlaceholderPath)
          => CredentialsEscaped(camera.existing.config.path)
    /\ (/\ wizard # NoWizard
        /\ wizard.cameras[1].username # <<>>
        /\ wizard.cameras[1].password # <<>>)
          => CredentialsEscaped(wizard.rtsp_url)

\* The camera-only editor saves a tab that shows what was loaded from a
\* camera of config.yaml, no field edited.
SavedAsLoaded ==
    /\ camera.tab.state = "open" /\ camera'.tab.state = "saved"
    /\ camera.existing # NoCamera
    /\ camera.tab = TabFromExisting(camera.existing.name,
                                    camera.existing.config)

\* C30: the camera-only editor opened on an existing configuration and
\* saved without an edit writes the camera that was loaded: the same
\* name, stream URL, roles, detect width, height and fps, tracked
\* objects, snapshot settings and record settings.
C30_SaveReproducesLoaded ==
    [][SavedAsLoaded => camera'.existing = camera.existing]_vars

----------------------------------------------------------------------------
\* config.yaml is there and holds no document (empty, or comments only):
\* yaml.safe_load returns None.
EmptyConfig == document.exists /\ DOMAIN document.nodes = {}

\* C26: a config.yaml that exists and is empty is to every editor a
\* config that is not there: the advanced editor and the camera-only
\* editor that load it show the fields of a new form, and a save of the
\* camera-only editor leaves the file as it is.
C26_EmptyIsNotFound ==
    [][EmptyConfig =>
         /\ (form.state # "open" /\ form'.state = "open")
               => form' = NewForm(form'.num_devices)
         /\ (camera_tabs.state # "open" /\ camera_tabs'.state = "open")
               => camera_tabs'.cams
                    = LoadExistingCameras([exists |-> FALSE,
                                           nodes |-> <<>>])
         /\ CameraSaved => document' = document]_vars

----------------------------------------------------------------------------
\* The sudo password: the install workers that are given one, and the
\* restart of the system.

\* restart_system: the confirmation is answered with reply, then the
\* PasswordDialog; the password is kept for _perform_restart, which a
\* single-shot timer calls.
RestartSystem(reply, password) ==
    /\ AcceptsInput
    /\ ~sudo.timer
    /\ IF ~reply
       THEN UNCHANGED sudo
       ELSE IF password = "none"
       THEN sudo' = [sudo EXCEPT !.prereq_progress = <<"cancelled">>]
       ELSE sudo' = [sudo EXCEPT !.restart_sudo_password = password,
                                 !.timer = TRUE,
                                 !.prereq_progress = <<"initiating">>]
    /\ sudo' # sudo
    /\ UNCHANGED <<camera, wizard, install_progress, nonAuxVars>>

\* _perform_restart: with a password `sudo -S reboot' reads it from its
\* standard input, without one `sudo reboot' is run; a failure is
\* reported with str(e) and e.stderr; the password is dropped whatever
\* happened.
PerformRestart(res) ==
    /\ Dispatches
    /\ sudo.timer
    /\ LET given == sudo.restart_sudo_password = "given"
           cmd == IF given THEN <<"sudo", "-S", "reboot">>
                  ELSE <<"sudo", "reboot">>
       IN  sudo' = [restart_sudo_password |-> "none",
                    timer |-> FALSE,
                    argv |-> cmd,
                    stdin |-> IF given
                              THEN <<sudo.restart_sudo_password, "\n">>
                              ELSE <<>>,
                    prereq_progress |->
                        CASE res = "ok" /\ given -> <<"executed">>
                          [] res = "ok" -> <<>>
                          [] res = "nonzero" ->
                               <<"failed: ", "Command">> \o cmd
                                  \o <<"returned non-zero exit status",
                                       "stderr">>
                          [] OTHER -> <<"Unexpected error", "errno">>]
    /\ UNCHANGED <<camera, wizard, install_progress, nonAuxVars>>

PrivilegedKinds == {"system_prereq", "docker_install"}

NextSudo ==
    \/ \E t \in {"git", "build-tools"} : \E p \in Passwords :
         InstallSystemPrereq(t, p)
    \/ \E reply \in BOOLEAN : \E p \in Passwords : InstallDockerPrereq(reply, p)
    \/ \E kind \in PrivilegedKinds : InstallWorkerRun(kind)
    \/ \E kind \in PrivilegedKinds : OnInstallFinished(kind)
    \/ \E reply \in BOOLEAN : \E p \in Passwords : RestartSystem(reply, p)
    \/ \E res \in R3 : PerformRestart(res)

\* Git, the build tools and Docker are still to be installed.
InitSudo ==
    /\ InitInstall
    /\ repoExists /\ gitRepo /\ venvExists
    /\ ~dockerInstalled
    /\ missing = {"git", "build-tools"}

SpecSudo == InitSudo /\ [][NextSudo]_vars

\* The elements of a text.
Parts(text) == {text[i] : i \in DOMAIN text}

\* C25: the sudo password goes only to the standard input of the
\* privileged commands: it is in no argument and in no line of the log,
\* and once a worker has emitted finished, or the restart has been
\* attempted, neither the worker nor the launcher holds it.
C25_CredentialDiscarded ==
    /\ "given" \notin Parts(sudo.argv) \cup Parts(sudo.prereq_progress)
    /\ ~sudo.timer => sudo.restart_sudo_password = "none"
    /\ \A kind \in PrivilegedKinds :
          iw[kind].pc = "ended" => ~iw[kind].pw

\* ------------------------------------ the default config.yaml of a clone
\* The text that _create_default_config writes: the template that
\* load_config_preview shows, with other indentation and another comment.
CreatedConfig == MaxContents + 1

\* The texts of InstallWorker.progress on the way of a clone (one for each
\* place of run() that the launcher can tell from the others).
Sentinel == "UPDATE_CONFIG_MTIME"

\* InstallWorker.run of a clone takes one step: a change of the file
\* system or one emit, queued for the UI thread. The tools that
\* _check_dependencies looks for are there, and the virtual environment
\* is set up.
CloneWorkerRun ==
    LET w == iw["install"]
        progress(message) == Event("install_progress", 0, message, TRUE)
        Step(pc, events) ==
            /\ iw' = [iw EXCEPT !["install"].pc = pc]
            /\ uiq' = uiq \o events
    IN  /\ ~closed
        /\ Len(uiq) < MaxQueue
        /\ w.arg = "clone_only"
        /\ IsRunningInstall(w)
        /\ CASE w.pc = "run" ->
                  /\ Step("rmtree",
                          <<progress("Cloning fresh Frigate repository...")>>)
                  /\ UNCHANGED <<repoExists, gitRepo, config_yaml>>
             [] w.pc = "rmtree" ->
                  \* _clone_frigate: shutil.rmtree(frigate_path) takes
                  \* frigate/config/config.yaml with it
                  IF repoExists
                  THEN /\ Step("clone", <<progress(
                                 "Removing existing Frigate directory...")>>)
                       /\ repoExists' = FALSE
                       /\ gitRepo' = FALSE
                       /\ config_yaml' = [config_yaml EXCEPT !.exists = FALSE]
                  ELSE /\ Step("clone", <<>>)
                       /\ UNCHANGED <<repoExists, gitRepo, config_yaml>>
             [] w.pc = "clone" ->
                  \E r \in R3 :
                    IF r = "ok"
                    THEN /\ Step("setup", <<progress(
                              "Frigate repository cloned successfully!")>>)
                         /\ repoExists' = TRUE
                         /\ gitRepo' = TRUE
                         /\ UNCHANGED config_yaml
                    ELSE /\ Step("failed", <<progress("Error")>>)
                         /\ UNCHANGED <<repoExists, gitRepo, config_yaml>>
             [] w.pc = "failed" ->
                  /\ Step("ended", <<Event("install_finished", 0, "install",
                                           FALSE)>>)
                  /\ UNCHANGED <<repoExists, gitRepo, config_yaml>>
             [] w.pc = "setup" ->
                  \* _setup_config_directory
                  /\ Step("create", <<progress("Created version.py")>>)
                  /\ UNCHANGED <<repoExists, gitRepo, config_yaml>>
             [] w.pc = "create" ->
                  \* _create_default_config
                  IF config_yaml.exists
                  THEN /\ Step("completed", <<progress(
                              "Config file already exists, skipping creation")>>)
                       /\ UNCHANGED <<repoExists, gitRepo, config_yaml>>
                  ELSE /\ config_yaml.mtime < MaxWrites
                       /\ Step("created", <<>>)
                       /\ config_yaml' = Written(config_yaml, CreatedConfig)
                       /\ UNCHANGED <<repoExists, gitRepo>>
             [] w.pc = "created" ->
                  /\ Step("location",
                          <<progress("Created default config.yaml file")>>)
                  /\ UNCHANGED <<repoExists, gitRepo, config_yaml>>
             [] w.pc = "location" ->
                  /\ Step("mtime", <<progress("Location")>>)
                  /\ UNCHANGED <<repoExists, gitRepo, config_yaml>>
             [] w.pc = "mtime" ->
                  /\ Step("completed", <<progress(Sentinel)>>)
                  /\ UNCHANGED <<repoExists, gitRepo, config_yaml>>
             [] w.pc = "completed" ->
                  /\ Step("finished",
                          <<progress("Setup completed successfully!")>>)
                  /\ UNCHANGED <<repoExists, gitRepo, config_yaml>>
             [] w.pc = "finished" ->
                  /\ Step("ended", <<Event("install_finished", 0, "install",
                                           TRUE)>>)
                  /\ UNCHANGED <<repoExists, gitRepo, config_yaml>>
        /\ UNCHANGED <<cExists, cRunning, dockerInstalled, venvExists,
                       missing, dw, uiVars, hist, statusVars, uicmds,
                       config_preview, config_file_mtime,
                       suppress_config_change_popup, prompts, camera_gui,
                       shown, loaded, docVars, auxVars>>

\* handle_install_progress, the slot of InstallWorker.progress.
HandleInstallProgress ==
    /\ Dispatches
    /\ uiq # <<>>
    /\ Head(uiq).t = "install_progress"
    /\ uiq' = Tail(uiq)
    /\ IF Head(uiq).c = Sentinel
       THEN /\ config_file_mtime' = IF config_yaml.exists
                                    THEN config_yaml.mtime
                                    ELSE config_file_mtime
            /\ UNCHANGED install_progress
       ELSE /\ install_progress' = Append(install_progress, Head(uiq).c)
            /\ UNCHANGED config_file_mtime
    /\ UNCHANGED <<envVars, dw, iw, uiVars, hist, statusVars, uicmds,
                   config_yaml, config_preview,
                   suppress_config_change_popup, prompts, camera_gui, shown,
                   loaded, docVars, camera, wizard, sudo>>

\* The launcher at rest with the watcher timer running: the frigate
\* directory with a config.yaml that the editor has loaded, or no frigate
\* directory and the template in the editor.
InitClone ==
    /\ cExists = FALSE /\ cRunning = FALSE
    /\ dockerInstalled = TRUE
    /\ repoExists \in BOOLEAN /\ gitRepo = repoExists /\ venvExists = TRUE
    /\ missing = {}
    /\ iw = [k \in InstallKinds |-> NoInstallWorker]
    /\ hist = NoHistory
    /\ dw = [i \in 1..MaxWorkers |-> NoWorker]
    /\ uiq = <<>> /\ uistack = <<>> /\ timers = {}
    /\ docker_worker = 0
    /\ current_docker_action = "none"
    /\ is_initializing = FALSE
    /\ button_operation_state = "idle"
    /\ btn = [InitialButtons EXCEPT !["preconfigured_start_btn"] = TRUE,
                                    !["preconfigured_stop_btn"] = TRUE]
    /\ first_start_flag = FALSE
    /\ closed = FALSE
    /\ ops = 0
    /\ req = "none"
    /\ status_worker = 0
    /\ sw = [i \in 1..MaxStatusWorkers |-> NoStatusWorker]
    /\ uicmds = <<>>
    /\ InitConfigOf([exists |-> repoExists, content |-> 1,
                     mtime |-> IF repoExists THEN 1 ELSE 0])
    /\ EditorsClosed
    /\ AuxAtRest

NextClone ==
    \/ InstallFrigate("clone_only")
    \/ CloneWorkerRun
    \/ HandleInstallProgress
    \/ OnInstallFinished("install")
    \/ CheckConfigFileChanges
    \/ \E reply \in {"Yes", "No"} : PromptAnswered(reply)

SpecClone == InitClone /\ [][NextClone]_vars

\* C28: the creation of the default config.yaml by a clone (the only
\* writer of the file here) never brings up the "Configuration File
\* Changed" prompt, however the write, the queued UPDATE_CONFIG_MTIME and
\* the ticks of the watcher fall; and the sentinel is no line of the log.
C28_CreationNeverPrompts ==
    /\ \A m \in 1..MaxWrites : shown[m] = 0
    /\ \A k \in 1..Len(install_progress) : install_progress[k] # Sentinel

==========================================================================
